---- MODULE Spec2Model ----
(***************************************************************************)
(* StoryReel AI: the interactive preview (VideoPlayer) and the App state   *)
(* that drives it.                                                         *)
(*                                                                         *)
(* One action is one JavaScript task: an event handler, a requestAnimation *)
(* Frame callback, a media event or a promise reaction, together with the  *)
(* React re-render it causes and the effects of that render (cleanups      *)
(* first, then the effect bodies, in declaration order).  State updates    *)
(* made in one task are batched into one render.                           *)
(*                                                                         *)
(* Time is in milliseconds, progress in percent.  Divisions that the code  *)
(* does in floating point are integer divisions here.  The code reads the  *)
(* clock only to subtract the anchor from it, so the anchor is kept as its *)
(* age, Date.now() - fallbackStartTimeRef.current, which grows with the    *)
(* clock.                                                                  *)
(***************************************************************************)
EXTENDS Integers, Sequences, FiniteSets, TLC

\* ---------------------------------------------------------------- bounds
\* Most scenes a generated script has in the model.
MaxScenes == 2
\* Display frames in FALLBACK_DURATION: fixes the frame interval.
Frames == 4
\* Length of every narration track, in display frames.
AudioFrames == 2
\* Length of the background music loop, in display frames.
BgFrames == 2
\* Most audio regenerations started in one run.
MaxRegens == 1
\* Most display frames one export spends waiting for promises of the runtime.
MaxWait == 1

\* Layers of a preview, side of an image or a target, words of a caption.
MaxLayers == 3

MaxDim == 4

MaxWords == 3
\* Most generation runs started, most calls of the scene cards started.
MaxRuns == 1

MaxEdits == 2
\* Most retries a retryOperation call is given.
MaxRetries == 5

\* ------------------------------------------------------------- constants
FALLBACK_DURATION == 5000
\* The default and the padding of the export's visible duration (5 s, 0.5 s).
DefaultDuration == 5000
Padding == 500

FrameMs == FALLBACK_DURATION \div Frames
AudioDuration == AudioFrames * FrameMs
BgDuration == BgFrames * FrameMs
\* fallbackStartTimeRef.current = null
Null == <<>>

Min(a, b) == IF a < b THEN a ELSE b

VARIABLES
    appState,             \* App: AppState
    scenes,               \* App: GeneratedScene[]
    currentSceneIndex,    \* App: 0-based index of the active scene
    isPlaying,            \* App: master play flag
    selectedMusic,        \* App: TRUE iff the selected music option has a url
    progress,             \* VideoPlayer: useState(0)
    fallbackStartTimeRef, \* VideoPlayer: Null, or <<age of the anchor>>
    fallbackRafRef,       \* VideoPlayer: TRUE iff an animation frame request is pending
    animateProgress,      \* the value of progress the pending animate closure captured
    listeners,            \* TRUE iff timeupdate/ended/error listeners are subscribed
    audio,                \* audioRef.current, the narration player
    bgAudio,              \* bgAudioRef.current, the background music player
    regens,               \* audio regenerations started so far
    sceneTime,            \* playing time spent on the active scene since it became active
    pausedAt,             \* Null, or <<progress when a fallback scene was paused>>
    exp,                  \* the generateVideo call in flight or last finished
    isExporting,          \* VideoPlayer: useState(false)
    isExportingFull,      \* App: useState(false)
    call,                 \* the helper call the last step made (NoCall: none)
    share,                \* VideoPlayer: shareState and shareFile
    gen,                  \* the asset fields of the scenes and the generation calls in flight
    lastOp                \* the kind of operation that made the last step

vars == <<appState, scenes, currentSceneIndex, isPlaying, selectedMusic, progress,
          fallbackStartTimeRef, fallbackRafRef, animateProgress, listeners, audio,
          bgAudio, regens, sceneTime, pausedAt, exp, isExporting, isExportingFull,
          call, gen, share, lastOp>>

\* No helper function has been called yet.
NoCall == [fn |-> "none", in |-> <<>>, out |-> <<>>, prev |-> <<>>]

\* No story yet: the input form.
NoGen == [scenes |-> <<>>, runs |-> {}, pending |-> {}, epoch |-> 0, ops |-> 0]

\* useState('idle'), useState(null): file is Null or <<the index of the scene the
\* file was made of>>.
NoShare == [state |-> "idle", file |-> Null]

\* The share state after a step that does not assign it: the effect on
\* currentSceneIndex resets it, and it is gone with the player.
ShareKept ==
    share' = IF currentSceneIndex' # currentSceneIndex \/ appState' # "READY"
             THEN NoShare ELSE share

\* ------------------------------------------------------------ the players
\* new Audio(): no source, paused, at position 0.  playPromise: a play() promise is
\* pending.  events: media events queued and not yet dispatched.
NewAudio ==
    [src |-> 0, paused |-> TRUE, currentTime |-> 0, playPromise |-> FALSE, events |-> {}]

NoBgAudio ==
    [exists |-> FALSE, paused |-> TRUE, currentTime |-> 0, playPromise |-> FALSE,
     rejected |-> FALSE]

\* new Audio(backgroundMusicUrl)
NewBgAudio ==
    [exists |-> TRUE, paused |-> TRUE, currentTime |-> 0, playPromise |-> FALSE,
     rejected |-> FALSE]

\* HTMLMediaElement.pause(): a playing element is paused and queues timeupdate; a
\* pending play() promise is rejected with AbortError, which the catch ignores.
AudioPause(a) ==
    [a EXCEPT !.paused = TRUE, !.playPromise = FALSE,
              !.events = IF a.paused THEN @ ELSE @ \cup {"timeupdate"}]

\* audio.src = url; audio.load(): position 0, paused, queued events dropped.
AudioLoad(a, url) ==
    [src |-> url, paused |-> TRUE, currentTime |-> 0, playPromise |-> FALSE, events |-> {}]

\* HTMLMediaElement.play(): an element that ended restarts from 0.
AudioPlay(a) ==
    [a EXCEPT !.paused = FALSE, !.playPromise = (a.paused \/ a.playPromise),
              !.currentTime = IF @ >= AudioDuration THEN 0 ELSE @]

BgPause(b) ==
    IF b.exists THEN [b EXCEPT !.paused = TRUE, !.playPromise = FALSE] ELSE b

BgPlay(b) ==
    IF b.exists
    THEN [b EXCEPT !.paused = FALSE, !.playPromise = (b.paused \/ b.playPromise),
                   !.rejected = FALSE]
    ELSE b

\* ------------------------------------------------- the state as one record
\* The App and VideoPlayer state an operation reads and writes.
State ==
    [scenes |-> scenes, idx |-> currentSceneIndex, playing |-> isPlaying,
     progress |-> progress, start |-> fallbackStartTimeRef, raf |-> fallbackRafRef,
     captured |-> animateProgress, listeners |-> listeners, audio |-> audio,
     bg |-> bgAudio]

\* const currentScene = scenes[currentSceneIndex]
HasScene(s) == s.idx + 1 \in 1..Len(s.scenes)

AudioUrl(s) == IF HasScene(s) THEN s.scenes[s.idx + 1].audioUrl ELSE 0

hasAudio(s) ==
    /\ HasScene(s)
    /\ s.scenes[s.idx + 1].audioUrl # 0
    /\ ~s.scenes[s.idx + 1].isRegeneratingAudio

\* The dependency list of the main playback effect.
MainDeps(s) == <<s.idx, hasAudio(s), s.playing, AudioUrl(s)>>

\* A cleanup that leaves the narration listeners subscribed.
MainCleanup_KeepsListeners(s) ==
    IF s.listeners THEN s ELSE [s EXCEPT !.raf = FALSE]

\* A cleanup that leaves the pending animation frame alone.
MainCleanup_NoCancel(s) ==
    IF s.listeners THEN [s EXCEPT !.listeners = FALSE] ELSE s

\* The cleanup the main playback effect returned: the audio path removes its
\* listeners, the fallback path cancels the pending animation frame.
MainCleanup(s) ==
    IF s.listeners
    THEN [s EXCEPT !.listeners = FALSE]
    ELSE [s EXCEPT !.raf = FALSE]

\* The body of the main playback effect, run in a render whose state is s.
MainEffect(s) ==
    LET s0 == [s EXCEPT !.raf = FALSE, !.progress = 0]
    IN  IF hasAudio(s) /\ AudioUrl(s) # 0
        THEN LET a1 == IF s.audio.src # AudioUrl(s)
                       THEN AudioLoad(s.audio, AudioUrl(s)) ELSE s.audio
                 a2 == IF s.playing THEN AudioPlay(a1) ELSE AudioPause(a1)
             IN  [s0 EXCEPT !.start = Null, !.listeners = TRUE, !.audio = a2]
        ELSE IF s.playing
             THEN [s0 EXCEPT !.audio = AudioPause(s.audio), !.raf = TRUE,
                             !.captured = s.progress]
             ELSE [s0 EXCEPT !.audio = AudioPause(s.audio), !.start = Null]

\* A sync effect that never pauses the background music.
SyncEffect_NoPause(s) ==
    [s EXCEPT !.bg = IF s.playing THEN BgPlay(s.bg) ELSE s.bg]

\* The effect that syncs the background music with isPlaying.
SyncEffect(s) ==
    [s EXCEPT !.bg = IF s.playing THEN BgPlay(s.bg) ELSE BgPause(s.bg)]

\* The render after an operation took the state from old to new: every effect one
\* of whose dependencies changed runs again.
Render(old, new) ==
    LET s1 == IF MainDeps(old) # MainDeps(new) THEN MainCleanup(new) ELSE new
        s2 == IF old.playing # new.playing THEN SyncEffect(s1) ELSE s1
    IN  IF MainDeps(old) # MainDeps(new) THEN MainEffect(s2) ELSE s2

\* The first render of VideoPlayer: every effect runs.
Mount(sc, idx, playing, music) ==
    LET s == [scenes |-> sc, idx |-> idx, playing |-> playing, progress |-> 0,
              start |-> Null, raf |-> FALSE, captured |-> 0, listeners |-> FALSE,
              audio |-> NewAudio,
              bg |-> IF music
                     THEN (IF playing THEN BgPlay(NewBgAudio) ELSE NewBgAudio)
                     ELSE NoBgAudio]
    IN  MainEffect(SyncEffect(s))

\* VideoPlayer unmounts: the cleanups of its effects run (the main effect's, the
\* narration player's, the background music's) and its state is gone.
Unmount(s) ==
    [MainCleanup(s) EXCEPT !.progress = 0, !.start = Null, !.captured = 0,
                           !.audio = NewAudio, !.bg = NoBgAudio]

\* A scene end that pauses the background music without rewinding it.
handleSceneEnd_NoRewind(s) ==
    IF s.idx < Len(s.scenes) - 1
    THEN [s EXCEPT !.idx = s.idx + 1, !.progress = 0, !.start = Null]
    ELSE [s EXCEPT !.playing = FALSE, !.idx = 0, !.progress = 0, !.start = Null,
                   !.bg = BgPause(s.bg)]

\* A scene end that advances past the last scene.
handleSceneEnd_OffByOne(s) ==
    IF s.idx <= Len(s.scenes) - 1
    THEN [s EXCEPT !.idx = s.idx + 1, !.progress = 0, !.start = Null]
    ELSE [s EXCEPT !.playing = FALSE, !.idx = 0, !.progress = 0, !.start = Null,
                   !.bg = IF s.bg.exists
                          THEN [BgPause(s.bg) EXCEPT !.currentTime = 0] ELSE s.bg]

\* A scene end that wraps to the first scene without stopping.
handleSceneEnd_NoStop(s) ==
    IF s.idx < Len(s.scenes) - 1
    THEN [s EXCEPT !.idx = s.idx + 1, !.progress = 0, !.start = Null]
    ELSE [s EXCEPT !.idx = 0, !.progress = 0, !.start = Null]

\* The end of the video leaves the background music paused at position 0.
handleSceneEnd(s) ==
    IF s.idx < Len(s.scenes) - 1
    THEN [s EXCEPT !.idx = s.idx + 1, !.progress = 0, !.start = Null]
    ELSE [s EXCEPT !.playing = FALSE, !.idx = 0, !.progress = 0, !.start = Null,
                   !.bg = IF s.bg.exists
                          THEN [BgPause(s.bg) EXCEPT !.currentTime = 0] ELSE s.bg]

\* The requestAnimationFrame callback of the fallback path.  A null anchor is set
\* to Date.now() - (progress / 100 * FALLBACK_DURATION), progress being the value the
\* closure captured; elapsed is the age of the anchor.
animate(s) ==
    LET start == IF s.start = Null
                 THEN <<(s.captured * FALLBACK_DURATION) \div 100>> ELSE s.start
        elapsed == start[1]
        newProgress == Min((elapsed * 100) \div FALLBACK_DURATION, 100)
        s1 == [s EXCEPT !.start = start, !.progress = newProgress]
    IN  IF newProgress >= 100
        THEN [handleSceneEnd(s1) EXCEPT !.start = Null, !.raf = FALSE]
        ELSE [s1 EXCEPT !.raf = TRUE]

skip(s, direction) ==
    LET n0 == IF direction = "next" THEN s.idx + 1 ELSE s.idx - 1
        n1 == IF n0 < 0 THEN 0 ELSE n0
        newIndex == IF n1 >= Len(s.scenes) THEN Len(s.scenes) - 1 ELSE n1
    IN  [s EXCEPT !.playing = FALSE, !.idx = newIndex, !.progress = 0, !.start = Null]

\* The state s becomes the next state.
Becomes(s) ==
    /\ scenes' = s.scenes
    /\ currentSceneIndex' = s.idx
    /\ isPlaying' = s.playing
    /\ progress' = s.progress
    /\ fallbackStartTimeRef' = s.start
    /\ fallbackRafRef' = s.raf
    /\ animateProgress' = s.captured
    /\ listeners' = s.listeners
    /\ audio' = s.audio
    /\ bgAudio' = s.bg

\* The playing time on the active scene: restarts when the index changes.
Timed(s, dt) ==
    sceneTime' = IF s.idx # currentSceneIndex THEN 0
                 ELSE Min(sceneTime + dt, FALLBACK_DURATION)

Mounted == appState = "READY"

\* ------------------------------------------------------------ the export
\* generateVideo as a sequence of tasks; pc names the await the call is parked at:
\* "resume" (actx.resume), "load" (the assets of scene i), "play" (visual.play),
\* "draw" (the render loop of scene i), "stopping" and "stopped" (the recorder's
\* dataavailable and stop events), "closing" (actx.close); "resolved" and
\* "rejected" are the two ways the returned promise settles.
\*   planned, waited, rendered, failed record the run: the durations of the scenes
\*   drawn so far, the frames spent waiting, the scenes drawn, the scenes whose
\*   assets failed to load.
NoExport ==
    [pc |-> "idle", caller |-> "none", wasPlaying |-> FALSE, list |-> <<>>, i |-> 1,
     actx |-> "none", recorder |-> "none", starts |-> 0, stops |-> 0, sources |-> 0,
     duration |-> 0, elapsed |-> 0, recTime |-> 0, planned |-> 0, waited |-> 0,
     rendered |-> <<>>, failed |-> {}, chunks |-> <<>>, blob |-> Null, index |-> 0,
     mimeType |-> "", typeSupported |-> FALSE, blobType |-> "", error |-> "none"]

\* A decoded narration lasts AudioDuration; a scene without audioUrl has no buffer.
BufferDuration(scene) == IF scene.audioUrl # 0 THEN AudioDuration ELSE 0

\* const duration = (audioBuffer?.duration || 5) + 0.5
visibleDuration(audioDuration) ==
    (IF audioDuration # 0 THEN audioDuration ELSE DefaultDuration) + Padding

\* if (recorder.state === 'recording') recorder.stop(); return recordingPromise
StopRecorder(e) ==
    IF e.recorder = "recording"
    THEN [e EXCEPT !.recorder = "inactive", !.stops = @ + 1, !.pc = "stopping"]
    ELSE [e EXCEPT !.pc = "stopping"]

\* The scene loop from the top of iteration e.i up to its first await: a scene with
\* no url at all is passed over at once, after the last scene the recorder is
\* stopped.
RECURSIVE SceneLoop(_)
SceneLoop(e) ==
    IF e.i > Len(e.list) THEN StopRecorder(e)
    ELSE IF e.list[e.i].visual = "none" /\ e.list[e.i].audioUrl = 0
         THEN SceneLoop([e EXCEPT !.i = @ + 1])
         ELSE [e EXCEPT !.pc = "load"]

\* The render loop starts: startTime = performance.now() and the first render().
StartRender(e) ==
    [e EXCEPT !.pc = "draw", !.elapsed = 0, !.rendered = Append(@, e.i),
              !.planned = @ + e.duration]

\* The asset promises of scene e.i settle.  A failure, or no visual, continues with
\* the next scene; otherwise the narration source is started and the loop-video is
\* asked to play, or the render loop starts.
AssetsLoaded(e, ok) ==
    LET scene == e.list[e.i]
        e1 == [e EXCEPT !.duration = visibleDuration(BufferDuration(scene)),
                        !.sources = IF scene.audioUrl # 0 THEN @ + 1 ELSE @]
    IN  IF ~ok THEN SceneLoop([e EXCEPT !.failed = @ \cup {e.i}, !.i = @ + 1])
        ELSE IF scene.visual = "none" THEN SceneLoop([e EXCEPT !.i = @ + 1])
        ELSE IF scene.visual = "video" THEN [e1 EXCEPT !.pc = "play"]
        ELSE StartRender(e1)

\* await visual.play() settles: a rejection is thrown out of generateVideo.
VideoPlayed(e, ok) ==
    IF ok THEN StartRender(e)
    ELSE [e EXCEPT !.pc = "rejected", !.error = "scene"]

\* The output types in the order generateVideo tries them.
mimeTypes == <<"video/webm;codecs=vp9,opus", "video/webm", "video/mp4">>

\* What MediaRecorder.isTypeSupported may answer: the set of supported types.
Supports == SUBSET {mimeTypes[k] : k \in 1..Len(mimeTypes)}

\* A selection without the break: the last supported type wins.
selectMimeType_NoBreak(supported) ==
    LET found == {k \in 1..Len(mimeTypes) : mimeTypes[k] \in supported}
    IN  IF found = {} THEN "video/webm"
        ELSE mimeTypes[CHOOSE k \in found : \A j \in found : k >= j]

\* let selectedMimeType = 'video/webm'; the first supported type replaces it.
selectMimeType(supported) ==
    LET found == {k \in 1..Len(mimeTypes) : mimeTypes[k] \in supported}
    IN  IF found = {} THEN "video/webm"
        ELSE mimeTypes[CHOOSE k \in found : \A j \in found : k <= j]

\* A recorder that is constructed whatever the type.
StartRecorder_NoThrow(e, supported) ==
    LET type == selectMimeType(supported)
        e1 == [e EXCEPT !.mimeType = type, !.typeSupported = type \in supported]
    IN  SceneLoop([e1 EXCEPT !.recorder = "recording", !.starts = @ + 1, !.i = 1])

\* generateVideo from the choice of the output type on: new MediaRecorder throws
\* NotSupportedError for a type the runtime does not support, else the recorder is
\* started and the scene loop entered.
StartRecorder(e, supported) ==
    LET type == selectMimeType(supported)
        e1 == [e EXCEPT !.mimeType = type, !.typeSupported = type \in supported]
    IN  IF type \notin supported
        THEN [e1 EXCEPT !.pc = "rejected", !.error = "session"]
        ELSE SceneLoop([e1 EXCEPT !.recorder = "recording", !.starts = @ + 1, !.i = 1])

\* The probe of the output types the step made, if it made one.
Probe(e, supported) ==
    IF e.mimeType = "" THEN NoCall
    ELSE [NoCall EXCEPT !.fn = "isTypeSupported", !.in = supported, !.out = e.mimeType]

\* generateVideo up to its first await.  session is what the runtime does with the
\* set-up: "ok", "suspended" (the AudioContext starts suspended), "noContext" (no
\* 2d context), "noRecorder" (new MediaRecorder throws).
generateVideo(list, caller, wasPlaying, session, supported) ==
    LET e == [NoExport EXCEPT !.list = list, !.caller = caller,
                              !.wasPlaying = wasPlaying]
    IN  CASE session = "noContext" ->
               [e EXCEPT !.pc = "rejected", !.error = "session"]
          [] session = "noRecorder" ->
               [e EXCEPT !.pc = "rejected", !.error = "session", !.actx = "running"]
          [] session = "suspended" ->
               [e EXCEPT !.pc = "resume", !.actx = "suspended"]
          [] OTHER -> StartRecorder([e EXCEPT !.actx = "running"], supported)

\* await actx.resume() settles.
Resumed(e, ok, supported) ==
    IF ok THEN StartRecorder([e EXCEPT !.actx = "running"], supported)
    ELSE [e EXCEPT !.pc = "rejected", !.error = "session"]

\* The promise generateVideo returned has settled.
Finished(e) == e.pc \in {"resolved", "rejected"}

\* The export is parked at a promise of the runtime.
Waiting(e) == e.pc \in {"resume", "load", "play"}

\* A frame whose render loop ends without stopping the narration source.
ExportFrame_NoSourceStop(e) ==
    LET e1 == [e EXCEPT !.recTime = IF e.recorder = "recording" /\ ~Finished(e)
                                    THEN @ + FrameMs ELSE @,
                        !.elapsed = IF e.pc = "draw" THEN @ + FrameMs ELSE @,
                        !.waited = IF Waiting(e) THEN @ + 1 ELSE @]
    IN  IF e.pc = "draw" /\ e1.elapsed >= e1.duration
        THEN SceneLoop([e1 EXCEPT !.i = @ + 1])
        ELSE e1

\* One display frame for the export: the recording grows (recTime follows it up to
\* the moment the call settles), and the render loop of the active scene runs:
\* once elapsed >= duration it resolves, the narration source is stopped and the
\* scene loop goes on.
ExportFrame(e) ==
    LET e1 == [e EXCEPT !.recTime = IF e.recorder = "recording" /\ ~Finished(e)
                                    THEN @ + FrameMs ELSE @,
                        !.elapsed = IF e.pc = "draw" THEN @ + FrameMs ELSE @,
                        !.waited = IF Waiting(e) THEN @ + 1 ELSE @]
    IN  IF e.pc = "draw" /\ e1.elapsed >= e1.duration
        THEN SceneLoop([e1 EXCEPT !.sources = IF e.list[e.i].audioUrl # 0
                                              THEN @ - 1 ELSE @,
                                  !.i = @ + 1])
        ELSE e1

\* recorder.ondataavailable: the recorder delivers what it recorded.
onDataAvailable(e) ==
    [e EXCEPT !.pc = "stopped",
              !.chunks = IF e.recTime > 0 THEN Append(@, e.recTime) ELSE @]

\* recorder.onstop up to await actx.close().
onStop(e) == [e EXCEPT !.pc = "closing"]

\* An onstop that resolves the call without closing the audio graph.
onStopClosed_NoClose(e) ==
    [e EXCEPT !.blob = <<e.chunks>>, !.blobType = e.mimeType, !.pc = "resolved"]

\* recorder.onstop after actx.close(): the blob of all chunks resolves the call.
onStopClosed(e) ==
    [e EXCEPT !.actx = "closed", !.blob = <<e.chunks>>, !.blobType = e.mimeType,
              !.pc = "resolved"]

\* scenes.filter(s => (s.imageUrl || s.videoUrl) && s.audioUrl)
ReadyScene(s) == s.visual # "none" /\ s.audioUrl # 0

readyScenes(sc) == SelectSeq(sc, ReadyScene)

\* The players as they are.
playerVars ==
    <<scenes, currentSceneIndex, isPlaying, progress, fallbackStartTimeRef,
      fallbackRafRef, animateProgress, listeners, audio, bgAudio>>

\* ---------------------------------------------------------------- actions
Init ==
    /\ appState = "IDLE"
    /\ scenes = <<>>
    /\ currentSceneIndex = 0
    /\ isPlaying = FALSE
    /\ selectedMusic = TRUE
    /\ progress = 0
    /\ fallbackStartTimeRef = Null
    /\ fallbackRafRef = FALSE
    /\ animateProgress = 0
    /\ listeners = FALSE
    /\ audio = NewAudio
    /\ bgAudio = NoBgAudio
    /\ regens = 0
    /\ sceneTime = 0
    /\ pausedAt = Null
    /\ exp = NoExport
    /\ isExporting = FALSE
    /\ isExportingFull = FALSE
    /\ call = NoCall
    /\ gen = NoGen
    /\ share = NoShare
    /\ lastOp = "init"

\* The music <select> of the input form.
SetSelectedMusic ==
    /\ appState = "IDLE"
    /\ selectedMusic' = ~selectedMusic
    /\ lastOp' = "other"
    /\ call' = NoCall
    /\ UNCHANGED <<gen, appState, scenes, currentSceneIndex, isPlaying, progress,
                   fallbackStartTimeRef, fallbackRafRef, animateProgress, listeners,
                   audio, bgAudio, regens, sceneTime, pausedAt>>
    /\ ShareKept
    /\ UNCHANGED <<exp, isExporting, isExportingFull>>

\* The scene lists a generation run can end with: every scene has an image and a
\* narration url of its own or, when the narration failed, none.
SceneLists ==
    UNION {{[i \in 1..n |-> [audioUrl |-> IF i \in withAudio THEN i ELSE 0,
                             isRegeneratingAudio |-> FALSE, visual |-> "image"]] :
              withAudio \in SUBSET (1..n)} : n \in 1..MaxScenes}

\* A generation run from the input form to READY, where VideoPlayer mounts.
handleCreateMagic ==
    /\ appState = "IDLE"
    /\ \E sc \in SceneLists :
          Becomes(Mount(sc, currentSceneIndex, isPlaying, selectedMusic))
    /\ appState' = "READY"
    /\ sceneTime' = 0
    /\ pausedAt' = Null
    /\ lastOp' = "other"
    /\ call' = NoCall
    /\ UNCHANGED <<gen, selectedMusic, regens>>
    /\ ShareKept
    /\ UNCHANGED <<exp, isExporting, isExportingFull>>

togglePlay ==
    /\ Mounted
    /\ ~isExporting    \* the button is disabled during a player export
    /\ Len(scenes) > 0
    /\ LET new == [State EXCEPT !.playing = ~isPlaying]
       IN  Becomes(Render(State, new))
    /\ pausedAt' = IF isPlaying /\ ~hasAudio(State) THEN <<progress>> ELSE pausedAt
    /\ lastOp' = "other"
    /\ call' = NoCall
    /\ UNCHANGED <<gen, appState, selectedMusic, regens, sceneTime>>
    /\ ShareKept
    /\ UNCHANGED <<exp, isExporting, isExportingFull>>

skipClick(direction) ==
    /\ Mounted
    /\ ~isExporting
    \* the button is disabled at the end it points to
    /\ IF direction = "prev" THEN currentSceneIndex # 0
       ELSE currentSceneIndex # Len(scenes) - 1
    /\ LET new == skip(State, direction)
       IN  Becomes(Render(State, new)) /\ Timed(new, 0)
    /\ pausedAt' = Null
    /\ lastOp' = "navigate"
    /\ call' = NoCall
    /\ UNCHANGED <<gen, appState, selectedMusic, regens>>
    /\ ShareKept
    /\ UNCHANGED <<exp, isExporting, isExportingFull>>

\* The "Play this scene" button of the scene list.
playThisScene(i) ==
    /\ Mounted
    /\ i \in 0..(Len(scenes) - 1)
    /\ LET new == [State EXCEPT !.idx = i, !.playing = TRUE]
       IN  Becomes(Render(State, new)) /\ Timed(new, 0)
    /\ pausedAt' = Null
    /\ lastOp' = "navigate"
    /\ call' = NoCall
    /\ UNCHANGED <<gen, appState, selectedMusic, regens>>
    /\ ShareKept
    /\ UNCHANGED <<exp, isExporting, isExportingFull>>

handleReset ==
    /\ appState' = "IDLE"
    /\ LET new == [State EXCEPT !.scenes = <<>>, !.idx = 0, !.playing = FALSE]
       IN  Becomes(IF Mounted THEN Unmount(new) ELSE new) /\ Timed(new, 0)
    /\ pausedAt' = Null
    /\ gen' = [gen EXCEPT !.scenes = <<>>]
    /\ ShareKept
    /\ lastOp' = "navigate"
    /\ call' = NoCall
    /\ UNCHANGED <<selectedMusic, regens>>
    /\ UNCHANGED <<exp, isExporting, isExportingFull>>

\* A playing narration advances with the clock and queues ended at its end.
AudioAdvance(a, dt) ==
    IF a.src # 0 /\ ~a.paused /\ ~a.playPromise /\ a.currentTime < AudioDuration
    THEN LET t == Min(a.currentTime + dt, AudioDuration)
         IN  [a EXCEPT !.currentTime = t,
                       !.events = IF t = AudioDuration THEN @ \cup {"ended"} ELSE @]
    ELSE a

\* The background music loops.
BgAdvance(b, dt) ==
    IF b.exists /\ ~b.paused /\ ~b.playPromise
    THEN [b EXCEPT !.currentTime = (@ + dt) % BgDuration]
    ELSE b

\* The anchor ages with the clock.
StartAdvance(start, dt) == IF start = Null THEN Null ELSE <<start[1] + dt>>

\* The pending fallback tick ends the scene.
Completes(s) == s.raf /\ animate(s).raf = FALSE

\* One display frame: the clock and the players advance by a frame interval and the
\* pending requestAnimationFrame callback, if any, runs.
Frame ==
    /\ Mounted
    /\ ~(Waiting(exp) /\ exp.waited >= MaxWait)
    /\ LET s0 == [State EXCEPT !.audio = AudioAdvance(audio, FrameMs),
                               !.bg = BgAdvance(bgAudio, FrameMs),
                               !.start = StartAdvance(fallbackStartTimeRef, FrameMs)]
           s1 == IF s0.raf THEN animate(s0) ELSE s0
       IN  /\ Becomes(Render(s0, s1))
           /\ Timed(s1, IF isPlaying THEN FrameMs ELSE 0)
           /\ lastOp' = IF Completes(s0) THEN "handleSceneEnd" ELSE "frame"
    /\ pausedAt' = IF fallbackRafRef THEN Null ELSE pausedAt
    /\ call' = NoCall
    /\ UNCHANGED <<gen, appState, selectedMusic, regens>>
    /\ ShareKept
    /\ exp' = ExportFrame(exp)
    /\ UNCHANGED <<isExporting, isExportingFull>>

onTimeUpdate(s) ==
    [s EXCEPT !.progress = (s.audio.currentTime * 100) \div AudioDuration]

\* A timeupdate event is dispatched: while the narration plays, or queued by pause().
AudioTimeUpdate ==
    /\ Mounted
    /\ \/ "timeupdate" \in audio.events
       \/ audio.src # 0 /\ ~audio.paused /\ ~audio.playPromise
    /\ LET s0 == [State EXCEPT !.audio.events = @ \ {"timeupdate"}]
       IN  Becomes(IF listeners THEN onTimeUpdate(s0) ELSE s0)
    /\ lastOp' = "other"
    /\ call' = NoCall
    /\ UNCHANGED <<gen, appState, selectedMusic, regens, sceneTime, pausedAt>>
    /\ ShareKept
    /\ UNCHANGED <<exp, isExporting, isExportingFull>>

\* The narration reached its end: the element pauses, fires timeupdate, then ended.
AudioEnded ==
    /\ Mounted
    /\ "ended" \in audio.events
    /\ LET s0 == [State EXCEPT !.audio.events = @ \ {"ended", "timeupdate"},
                               !.audio.paused = TRUE]
           s1 == IF listeners THEN handleSceneEnd(onTimeUpdate(s0)) ELSE s0
       IN  Becomes(Render(s0, s1)) /\ Timed(s1, 0)
    /\ pausedAt' = IF listeners THEN Null ELSE pausedAt
    /\ lastOp' = IF listeners THEN "handleSceneEnd" ELSE "other"
    /\ call' = NoCall
    /\ UNCHANGED <<gen, appState, selectedMusic, regens>>
    /\ ShareKept
    /\ UNCHANGED <<exp, isExporting, isExportingFull>>

\* The error listener of the audio path.
onError(s) == [s EXCEPT !.playing = FALSE]

\* The narration player reports an error (network, decode).
AudioError ==
    /\ Mounted
    /\ listeners
    /\ audio.src # 0
    /\ LET s0 == [State EXCEPT !.audio.paused = TRUE, !.audio.playPromise = FALSE]
       IN  Becomes(Render(s0, onError(s0)))
    /\ pausedAt' = Null
    /\ lastOp' = "refused"
    /\ call' = NoCall
    /\ UNCHANGED <<gen, appState, selectedMusic, regens, sceneTime>>
    /\ ShareKept
    /\ UNCHANGED <<exp, isExporting, isExportingFull>>

\* The play() promise of the narration resolves: playback runs.
PlayStarted ==
    /\ Mounted
    /\ audio.playPromise
    /\ audio' = [audio EXCEPT !.playPromise = FALSE]
    /\ lastOp' = "other"
    /\ call' = NoCall
    /\ UNCHANGED <<gen, appState, scenes, currentSceneIndex, isPlaying, selectedMusic,
                   progress, fallbackStartTimeRef, fallbackRafRef, animateProgress,
                   listeners, bgAudio, regens, sceneTime, pausedAt>>
    /\ ShareKept
    /\ UNCHANGED <<exp, isExporting, isExportingFull>>

\* A catch that stops playback for NotAllowedError only.
playCatch_OnlyNotAllowed(s, name) ==
    IF name = "NotAllowedError" THEN [s EXCEPT !.playing = FALSE] ELSE s

\* playPromise.catch(error => ...)
playCatch(s, name) ==
    IF name = "NotAllowedError" \/ name = "NotSupportedError"
    THEN [s EXCEPT !.playing = FALSE]
    ELSE s

\* The runtime refuses to start the narration: the play() promise rejects.
PlayRejected(name) ==
    /\ Mounted
    /\ audio.playPromise
    /\ LET s0 == [State EXCEPT !.audio.paused = TRUE, !.audio.playPromise = FALSE]
       IN  Becomes(Render(s0, playCatch(s0, name)))
    /\ pausedAt' = Null
    /\ lastOp' = "refused"
    /\ call' = NoCall
    /\ UNCHANGED <<gen, appState, selectedMusic, regens, sceneTime>>
    /\ ShareKept
    /\ UNCHANGED <<exp, isExporting, isExportingFull>>

\* The play() promise of the background music resolves.
BgPlayStarted ==
    /\ Mounted
    /\ bgAudio.playPromise
    /\ bgAudio' = [bgAudio EXCEPT !.playPromise = FALSE]
    /\ lastOp' = "other"
    /\ call' = NoCall
    /\ UNCHANGED <<gen, appState, scenes, currentSceneIndex, isPlaying, selectedMusic,
                   progress, fallbackStartTimeRef, fallbackRafRef, animateProgress,
                   listeners, audio, regens, sceneTime, pausedAt>>
    /\ ShareKept
    /\ UNCHANGED <<exp, isExporting, isExportingFull>>

\* The play() promise of the background music rejects: the catch only logs.
BgPlayRejected ==
    /\ Mounted
    /\ bgAudio.playPromise
    /\ bgAudio' = [bgAudio EXCEPT !.playPromise = FALSE, !.paused = TRUE,
                                  !.rejected = TRUE]
    /\ lastOp' = "other"
    /\ call' = NoCall
    /\ UNCHANGED <<gen, appState, scenes, currentSceneIndex, isPlaying, selectedMusic,
                   progress, fallbackStartTimeRef, fallbackRafRef, animateProgress,
                   listeners, audio, regens, sceneTime, pausedAt>>
    /\ ShareKept
    /\ UNCHANGED <<exp, isExporting, isExportingFull>>

\* handleRegenerateAudio up to its await: the scene's flag is raised.
handleRegenerateAudio(i) ==
    /\ Mounted
    /\ i \in 1..Len(scenes)
    /\ ~scenes[i].isRegeneratingAudio
    /\ regens < MaxRegens
    /\ regens' = regens + 1
    /\ LET new == [State EXCEPT !.scenes[i].isRegeneratingAudio = TRUE]
       IN  Becomes(Render(State, new))
    /\ pausedAt' = Null
    /\ lastOp' = "other"
    /\ call' = NoCall
    /\ UNCHANGED <<gen, appState, selectedMusic, sceneTime>>
    /\ ShareKept
    /\ UNCHANGED <<exp, isExporting, isExportingFull>>

\* handleRegenerateAudio after its await: a new url on success, the old one on
\* failure; the flag is lowered.
RegenerateAudioSettles(i, ok) ==
    /\ Mounted
    /\ i \in 1..Len(scenes)
    /\ scenes[i].isRegeneratingAudio
    /\ LET new == [State EXCEPT
                     !.scenes[i].audioUrl = IF ok THEN MaxScenes + regens ELSE @,
                     !.scenes[i].isRegeneratingAudio = FALSE]
       IN  Becomes(Render(State, new))
    /\ pausedAt' = Null
    /\ lastOp' = "other"
    /\ call' = NoCall
    /\ UNCHANGED <<gen, appState, selectedMusic, regens, sceneTime>>
    /\ ShareKept
    /\ UNCHANGED <<exp, isExporting, isExportingFull>>

\* ------------------------------------------------------- export actions
\* One generateVideo call is followed at a time.
Busy == exp.pc # "idle" /\ ~Finished(exp)

Sessions == {"ok", "suspended", "noContext", "noRecorder"}

\* handleShareClick past its await: the file of the scene the call was made for
\* is stored and the state is 'ready'; the catch sets the state to 'idle'.
shareSettled(sh, e) ==
    IF e.pc = "resolved" THEN [state |-> "ready", file |-> <<e.index>>]
    ELSE [sh EXCEPT !.state = "idle"]

\* A task of the export took it to e.  When that settles the promise, the caller
\* goes on past its await: handleDownload clears isExporting and restores
\* isPlaying, the movie exports clear isExportingFull.
Continue(e, probe) ==
    /\ exp' = e
    /\ call' = probe
    /\ share' = IF Finished(e) /\ e.caller = "share" THEN shareSettled(share, e)
                ELSE share
    /\ IF Finished(e)
       THEN /\ isExporting' = (isExporting /\ e.caller \notin {"download", "share"})
            /\ isExportingFull' = (isExportingFull /\ e.caller \notin {"full", "social"})
            /\ IF e.caller = "download" /\ e.wasPlaying
               THEN Becomes(Render(State, [State EXCEPT !.playing = TRUE]))
               ELSE UNCHANGED playerVars
       ELSE UNCHANGED <<isExporting, isExportingFull>> /\ UNCHANGED playerVars
    /\ lastOp' = "export"
    /\ UNCHANGED <<gen, appState, selectedMusic, regens, sceneTime, pausedAt>>

\* The download button of the player: the active scene alone.
handleDownload ==
    /\ Mounted
    /\ HasScene(State)
    /\ ~isExporting
    /\ ~Busy
    /\ \E session \in Sessions, supported \in Supports :
          LET e == generateVideo(<<scenes[currentSceneIndex + 1]>>, "download",
                                 isPlaying, session, supported)
              paused == Render(State, [State EXCEPT !.playing = FALSE])
          IN  /\ exp' = e
              /\ call' = Probe(e, supported)
              /\ isExporting' = ~Finished(e)
              /\ Becomes(IF Finished(e) /\ isPlaying
                         THEN Render(paused, [paused EXCEPT !.playing = TRUE])
                         ELSE paused)
    /\ pausedAt' = Null
    /\ lastOp' = "export"
    /\ UNCHANGED <<gen, appState, selectedMusic, regens, sceneTime, isExportingFull>>
    /\ ShareKept

\* The share button of the player: with a file ready it shares the file (or
\* downloads it where files cannot be shared), otherwise it prepares the file of
\* the active scene.
handleShareClick ==
    /\ Mounted
    /\ HasScene(State)
    /\ ~isExporting
    /\ share.state # "generating"
    /\ IF share.state = "ready" /\ share.file # Null
       THEN /\ call' = [NoCall EXCEPT !.fn = "navigator.share",
                                      !.in = <<share.file, currentSceneIndex>>]
            /\ share' = NoShare
            /\ UNCHANGED <<exp, isExporting>>
            /\ UNCHANGED playerVars
       ELSE /\ share.state = "idle"
            /\ ~Busy
            /\ \E session \in Sessions, supported \in Supports :
                  LET e == [generateVideo(<<scenes[currentSceneIndex + 1]>>, "share",
                                          isPlaying, session, supported)
                              EXCEPT !.index = currentSceneIndex]
                      generating == [share EXCEPT !.state = "generating"]
                  IN  /\ exp' = e
                      /\ call' = Probe(e, supported)
                      /\ isExporting' = ~Finished(e)
                      /\ share' = IF Finished(e) THEN shareSettled(generating, e)
                                  ELSE generating
            /\ Becomes(Render(State, [State EXCEPT !.playing = FALSE]))
    /\ pausedAt' = Null
    /\ lastOp' = "export"
    /\ UNCHANGED <<gen, appState, selectedMusic, regens, sceneTime, isExportingFull>>

\* The download button of a scene in the scene list.
handleDownloadScene(i) ==
    /\ Mounted
    /\ i \in 1..Len(scenes)
    /\ ~Busy
    /\ \E session \in Sessions, supported \in Supports :
          LET e == generateVideo(<<scenes[i]>>, "sceneDownload", FALSE, session,
                                 supported)
          IN  exp' = e /\ call' = Probe(e, supported)
    /\ lastOp' = "export"
    /\ UNCHANGED playerVars
    /\ UNCHANGED <<gen, appState, selectedMusic, regens, sceneTime, pausedAt, isExporting,
                   isExportingFull>>
    /\ ShareKept

\* A movie export that hands generateVideo whatever the filter left.
exportMovie_NoGuard(caller) ==
    /\ Mounted
    /\ Len(scenes) # 0
    /\ ~isExportingFull
    /\ ~Busy
    /\ Becomes(Render(State, [State EXCEPT !.playing = FALSE]))
    /\ \E session \in Sessions, supported \in Supports :
          LET e == generateVideo(readyScenes(scenes), caller, FALSE, session,
                                 supported)
          IN  exp' = e /\ isExportingFull' = ~Finished(e) /\ call' = Probe(e, supported)
    /\ pausedAt' = Null
    /\ lastOp' = "export"
    /\ UNCHANGED <<gen, appState, selectedMusic, regens, sceneTime, isExporting>>
    /\ ShareKept

\* handleExportFullMovie and handleSocialExport: playback stops, the ready scenes
\* are exported; with no ready scene the handler throws before generateVideo.
exportMovie(caller) ==
    /\ Mounted
    /\ Len(scenes) # 0
    /\ ~isExportingFull
    /\ ~Busy
    /\ Becomes(Render(State, [State EXCEPT !.playing = FALSE]))
    /\ IF Len(readyScenes(scenes)) = 0
       THEN /\ exp' = [NoExport EXCEPT !.pc = "rejected", !.error = "empty",
                                       !.caller = caller]
            /\ isExportingFull' = FALSE
            /\ call' = NoCall
       ELSE \E session \in Sessions, supported \in Supports :
               LET e == generateVideo(readyScenes(scenes), caller, FALSE, session,
                                      supported)
               IN  /\ exp' = e
                   /\ isExportingFull' = ~Finished(e)
                   /\ call' = Probe(e, supported)
    /\ pausedAt' = Null
    /\ lastOp' = "export"
    /\ UNCHANGED <<gen, appState, selectedMusic, regens, sceneTime, isExporting>>
    /\ ShareKept

handleExportFullMovie == exportMovie("full")

handleSocialExport == exportMovie("social")

ResumeSettles(ok) ==
    /\ exp.pc = "resume"
    /\ \E supported \in Supports :
          LET e == Resumed(exp, ok, supported)
          IN  Continue(e, Probe(e, supported))

AssetsSettle(ok) == exp.pc = "load" /\ Continue(AssetsLoaded(exp, ok), NoCall)

VideoPlaySettles(ok) == exp.pc = "play" /\ Continue(VideoPlayed(exp, ok), NoCall)

RecorderData == exp.pc = "stopping" /\ Continue(onDataAvailable(exp), NoCall)

RecorderStop == exp.pc = "stopped" /\ Continue(onStop(exp), NoCall)

ActxClosed == exp.pc = "closing" /\ Continue(onStopClosed(exp), NoCall)

Next ==
    \/ SetSelectedMusic
    \/ handleCreateMagic
    \/ togglePlay
    \/ \E d \in {"next", "prev"} : skipClick(d)
    \/ \E i \in 0..(MaxScenes - 1) : playThisScene(i)
    \/ handleReset
    \/ Frame
    \/ AudioTimeUpdate
    \/ AudioEnded
    \/ AudioError
    \/ PlayStarted
    \/ \E name \in {"NotAllowedError", "NotSupportedError"} : PlayRejected(name)
    \/ BgPlayStarted
    \/ BgPlayRejected
    \/ \E i \in 1..MaxScenes : handleRegenerateAudio(i)
    \/ \E i \in 1..MaxScenes, ok \in BOOLEAN : RegenerateAudioSettles(i, ok)

Spec == Init /\ [][Next]_vars

\* ------------------------------------------- playback without user input
\* The player right after the user pressed play on a freshly mounted preview:
\* index 0, isPlaying true.
AutoInit ==
    /\ appState = "READY"
    /\ selectedMusic \in BOOLEAN
    /\ \E sc \in SceneLists :
          LET m == Mount(sc, 0, FALSE, selectedMusic)
              s == Render(m, [m EXCEPT !.playing = TRUE])
          IN  /\ scenes = s.scenes
              /\ currentSceneIndex = s.idx
              /\ isPlaying = s.playing
              /\ progress = s.progress
              /\ fallbackStartTimeRef = s.start
              /\ fallbackRafRef = s.raf
              /\ animateProgress = s.captured
              /\ listeners = s.listeners
              /\ audio = s.audio
              /\ bgAudio = s.bg
    /\ regens = 0
    /\ sceneTime = 0
    /\ pausedAt = Null
    /\ exp = NoExport
    /\ isExporting = FALSE
    /\ isExportingFull = FALSE
    /\ call = NoCall
    /\ gen = NoGen
    /\ share = NoShare
    /\ lastOp = "other"

\* No user input and no playback error: only the clock, the media events and the
\* play() promises move the player.
AutoNext ==
    \/ Frame
    \/ AudioTimeUpdate
    \/ AudioEnded
    \/ PlayStarted
    \/ BgPlayStarted

\* Frames keep coming, a queued ended event is dispatched, a play() promise settles.
AutoSpec ==
    /\ AutoInit
    /\ [][AutoNext]_vars
    /\ WF_vars(Frame)
    /\ WF_vars(AudioEnded)
    /\ WF_vars(PlayStarted)

\* ------------------------------------------------------ the export alone
\* The scene lists the exports can meet: a scene has an image, a loop-video or no
\* visual, and a narration or none.
ExportSceneLists ==
    UNION {{[i \in 1..n |-> [audioUrl |-> IF i \in withAudio THEN i ELSE 0,
                             isRegeneratingAudio |-> FALSE, visual |-> vis[i]]] :
              withAudio \in SUBSET (1..n),
              vis \in [1..n -> {"image", "video", "none"}]} : n \in 1..MaxScenes}

\* READY: the preview is mounted and paused on the first scene of one of lists.
ReadyInit(lists, music) ==
    /\ appState = "READY"
    /\ selectedMusic \in music
    /\ \E sc \in lists :
          LET s == Mount(sc, 0, FALSE, selectedMusic)
          IN  /\ scenes = s.scenes
              /\ currentSceneIndex = s.idx
              /\ isPlaying = s.playing
              /\ progress = s.progress
              /\ fallbackStartTimeRef = s.start
              /\ fallbackRafRef = s.raf
              /\ animateProgress = s.captured
              /\ listeners = s.listeners
              /\ audio = s.audio
              /\ bgAudio = s.bg
    /\ regens = 0
    /\ sceneTime = 0
    /\ pausedAt = Null
    /\ exp = NoExport
    /\ isExporting = FALSE
    /\ isExportingFull = FALSE
    /\ call = NoCall
    /\ gen = NoGen
    /\ share = NoShare
    /\ lastOp = "other"

ExportInit == ReadyInit(ExportSceneLists, BOOLEAN)

ExportNext ==
    \/ handleDownload
    \/ \E i \in 1..MaxScenes : handleDownloadScene(i)
    \/ handleExportFullMovie
    \/ handleSocialExport
    \/ Frame
    \/ \E ok \in BOOLEAN : ResumeSettles(ok)
    \/ \E ok \in BOOLEAN : AssetsSettle(ok)
    \/ \E ok \in BOOLEAN : VideoPlaySettles(ok)
    \/ RecorderData
    \/ RecorderStop
    \/ ActxClosed

ExportSpec == ExportInit /\ [][ExportNext]_vars

\* ------------------------------------------- the preview and the exports
\* One scene is enough for two renderings of it, the preview's and an export's.
LiveSceneLists == {sc \in SceneLists : Len(sc) = 1}

\* The user plays the preview of a story of one scene and exports it, in any
\* order, without background music.
LiveInit == ReadyInit(LiveSceneLists, {FALSE})

LiveNext ==
    \/ handleDownload
    \/ \E i \in 1..MaxScenes : handleDownloadScene(i)
    \/ handleExportFullMovie
    \/ handleSocialExport
    \/ togglePlay
    \/ \E i \in 0..(MaxScenes - 1) : playThisScene(i)
    \/ Frame
    \/ PlayStarted
    \/ AudioTimeUpdate
    \/ AudioEnded
    \/ \E ok \in BOOLEAN : ResumeSettles(ok)
    \/ \E ok \in BOOLEAN : AssetsSettle(ok)
    \/ RecorderData
    \/ RecorderStop
    \/ ActxClosed

LiveSpec == LiveInit /\ [][LiveNext]_vars

\* Frames keep coming, every awaited promise settles and the recorder delivers
\* its events.
ExportFairSpec ==
    /\ ExportInit
    /\ [][ExportNext]_vars
    /\ WF_vars(Frame)
    /\ WF_vars(\E ok \in BOOLEAN : ResumeSettles(ok))
    /\ WF_vars(\E ok \in BOOLEAN : AssetsSettle(ok))
    /\ WF_vars(\E ok \in BOOLEAN : VideoPlaySettles(ok))
    /\ WF_vars(RecorderData)
    /\ WF_vars(RecorderStop)
    /\ WF_vars(ActxClosed)

\* -------------------------------------------------- generation and editing
\* gen.scenes is App's scenes with the fields generation writes; scenes (the
\* variable) is what VideoPlayer and the exports read of them.  gen.runs are the
\* handleCreateMagic calls in flight, gen.pending the calls of the scene cards in
\* flight, gen.epoch counts the runs started (Date.now() in the ids) and gen.ops
\* the calls of the scene cards started.

\* initialScenes of run ep for a script of n scenes.
initialScenes(ep, n) ==
    [k \in 1..n |-> [id |-> <<ep, k>>, status |-> "pending", imageUrl |-> FALSE,
                     videoUrl |-> FALSE, audioUrl |-> 0, edited |-> FALSE,
                     isRegeneratingAudio |-> FALSE, isRegeneratingImage |-> FALSE,
                     isGeneratingVideo |-> FALSE]]

\* An update that changes every scene, whatever its id.
mapScenes_NoFilter(gs, id, to) == [k \in 1..Len(gs) |-> to[k]]

\* setScenes(prev => prev.map(s => s.id === id ? {...} : s)), to[k] being what the
\* updater makes of the scene at k.
mapScenes(gs, id, to) ==
    [k \in 1..Len(gs) |-> IF gs[k].id = id THEN to[k] ELSE gs[k]]

\* scenes.find(s => s.id === id) of the scene at position i
sceneAt(i) == gen.scenes[i]

\* What VideoPlayer and generateVideo read of a scene.
Project(gs) ==
    [k \in 1..Len(gs) |->
        [audioUrl |-> gs[k].audioUrl,
         isRegeneratingAudio |-> gs[k].isRegeneratingAudio,
         visual |-> IF gs[k].videoUrl THEN "video"
                    ELSE IF gs[k].imageUrl THEN "image" ELSE "none"]]

\* The render after App's state became (app, gs): VideoPlayer is rendered in READY
\* only, so it mounts, re-renders or unmounts.
Shown(app, gs) ==
    LET new == [State EXCEPT !.scenes = Project(gs)]
    IN  /\ appState' = app
        /\ Becomes(IF appState = "READY"
                   THEN (IF app = "READY" THEN Render(State, new) ELSE Unmount(new))
                   ELSE (IF app = "READY"
                         THEN Mount(new.scenes, new.idx, new.playing, selectedMusic)
                         ELSE new))
        /\ sceneTime' = IF app = "READY" /\ appState = "READY" THEN sceneTime ELSE 0
        /\ pausedAt' = Null
        /\ lastOp' = "other"
        /\ call' = NoCall
        /\ ShareKept
        /\ UNCHANGED <<selectedMusic, regens, exp, isExporting, isExportingFull>>

\* The updaters of handleCreateMagic's loop.
Loading(s) == [s EXCEPT !.status = "loading"]

Painted(s) == [s EXCEPT !.imageUrl = TRUE]

Completed(audioUrl, s) == [s EXCEPT !.audioUrl = audioUrl, !.status = "completed"]

\* A catch that reports the scene as done.
Failed_Completed(s) == [s EXCEPT !.status = "completed"]

Failed(s) == [s EXCEPT !.status = "error"]

\* handleCreateMagic up to the await of generateScript.
CreateMagicStarts ==
    /\ appState = "IDLE"
    /\ gen.epoch < MaxRuns
    /\ gen' = [gen EXCEPT !.epoch = @ + 1,
                          !.runs = @ \cup {[ep |-> gen.epoch + 1, n |-> 0, i |-> 0,
                                            pc |-> "script"]}]
    /\ Shown("GENERATING_SCRIPT", gen.scenes)

\* generateScript settles: on failure the run ends in ERROR; on success the
\* scenes are replaced and the loop starts on the first one.
ScriptSettles(r, ok) ==
    /\ r \in gen.runs
    /\ r.pc = "script"
    /\ IF ok
       THEN \E n \in 1..MaxScenes :
               LET new == initialScenes(r.ep, n)
                   gs == mapScenes(new, <<r.ep, 1>>,
                                   [k \in 1..n |-> Loading(new[k])])
               IN  /\ gen' = [gen EXCEPT !.scenes = gs,
                                         !.runs = (@ \ {r}) \cup
                                                  {[r EXCEPT !.n = n, !.i = 1,
                                                             !.pc = "image"]}]
                   /\ Shown("GENERATING_ASSETS", gs)
       ELSE /\ gen' = [gen EXCEPT !.runs = @ \ {r}]
            /\ Shown("ERROR", gen.scenes)

\* The end of one iteration of the loop, the scenes being gs: the delay before
\* the next scene, or READY after the last.
IterationEnds(r, gs) ==
    IF r.i < r.n
    THEN /\ gen' = [gen EXCEPT !.scenes = gs,
                               !.runs = (@ \ {r}) \cup {[r EXCEPT !.pc = "delay"]}]
         /\ Shown(appState, gs)
    ELSE /\ gen' = [gen EXCEPT !.scenes = gs, !.runs = @ \ {r}]
         /\ Shown("READY", gs)

\* generateImageForScene settles for the scene of the loop.
ImageSettles(r, ok) ==
    /\ r \in gen.runs
    /\ r.pc = "image"
    /\ IF ok
       THEN LET gs == mapScenes(gen.scenes, <<r.ep, r.i>>,
                                [k \in 1..Len(gen.scenes) |-> Painted(gen.scenes[k])])
            IN  /\ gen' = [gen EXCEPT !.scenes = gs,
                                      !.runs = (@ \ {r}) \cup
                                               {[r EXCEPT !.pc = "audio"]}]
                /\ Shown(appState, gs)
       ELSE IterationEnds(r, mapScenes(gen.scenes, <<r.ep, r.i>>,
                                       [k \in 1..Len(gen.scenes) |-> Failed(gen.scenes[k])]))

\* generateSpeechForScene settles for the scene of the loop.
SpeechSettles(r, ok) ==
    /\ r \in gen.runs
    /\ r.pc = "audio"
    /\ LET done(s) == Completed(r.i, s)
       IN  IterationEnds(r, IF ok THEN mapScenes(gen.scenes, <<r.ep, r.i>>,
                                                 [k \in 1..Len(gen.scenes) |-> done(gen.scenes[k])])
                            ELSE mapScenes(gen.scenes, <<r.ep, r.i>>,
                                           [k \in 1..Len(gen.scenes) |-> Failed(gen.scenes[k])]))

\* The delay between two scenes is over: the next scene is loading.
DelayEnds(r) ==
    /\ r \in gen.runs
    /\ r.pc = "delay"
    /\ LET gs == mapScenes(gen.scenes, <<r.ep, r.i + 1>>,
                           [k \in 1..Len(gen.scenes) |-> Loading(gen.scenes[k])])
       IN  /\ gen' = [gen EXCEPT !.scenes = gs,
                                 !.runs = (@ \ {r}) \cup
                                          {[r EXCEPT !.i = @ + 1, !.pc = "image"]}]
           /\ Shown(appState, gs)

\* A scene card's handler up to its await: the scenes become gs and call p is in
\* flight.
CardCall(kind, i, gs) ==
    /\ gen.ops < MaxEdits
    /\ gen' = [gen EXCEPT !.scenes = gs, !.ops = @ + 1,
                          !.pending = @ \cup {[kind |-> kind, id |-> sceneAt(i).id,
                                               url |-> MaxScenes + gen.ops + 1]}]
    /\ Shown(appState, gs)

\* The narration box and the visual prompt box of a scene card.
handleUpdateSceneText(i) ==
    /\ appState = "READY"
    /\ i \in 1..Len(gen.scenes)
    /\ gen.ops < MaxEdits
    /\ LET edit(s) == [s EXCEPT !.edited = TRUE]
           gs == mapScenes(gen.scenes, sceneAt(i).id,
                           [k \in 1..Len(gen.scenes) |-> edit(gen.scenes[k])])
       IN  /\ gen' = [gen EXCEPT !.scenes = gs, !.ops = @ + 1]
           /\ Shown(appState, gs)

RegenerateAudioStarts(i) ==
    /\ appState = "READY"
    /\ i \in 1..Len(gen.scenes)
    /\ ~sceneAt(i).isRegeneratingAudio
    /\ LET flag(s) == [s EXCEPT !.isRegeneratingAudio = TRUE]
       IN  CardCall("audio", i, mapScenes(gen.scenes, sceneAt(i).id,
                                          [k \in 1..Len(gen.scenes) |-> flag(gen.scenes[k])]))

handleRegenerateImage(i) ==
    /\ appState = "READY"
    /\ i \in 1..Len(gen.scenes)
    /\ ~sceneAt(i).isRegeneratingImage
    /\ ~sceneAt(i).isGeneratingVideo
    /\ LET flag(s) == [s EXCEPT !.isRegeneratingImage = TRUE]
       IN  CardCall("image", i, mapScenes(gen.scenes, sceneAt(i).id,
                                          [k \in 1..Len(gen.scenes) |-> flag(gen.scenes[k])]))

\* The Animate button is rendered for a scene with an image and no video.
handleAnimateScene(i) ==
    /\ appState = "READY"
    /\ i \in 1..Len(gen.scenes)
    /\ sceneAt(i).imageUrl
    /\ ~sceneAt(i).videoUrl
    /\ ~sceneAt(i).isGeneratingVideo
    /\ ~sceneAt(i).isRegeneratingImage
    /\ LET flag(s) == [s EXCEPT !.isGeneratingVideo = TRUE]
       IN  CardCall("video", i, mapScenes(gen.scenes, sceneAt(i).id,
                                          [k \in 1..Len(gen.scenes) |-> flag(gen.scenes[k])]))

handleRegenerateScene(i) ==
    /\ appState = "READY"
    /\ i \in 1..Len(gen.scenes)
    /\ ~sceneAt(i).isRegeneratingAudio
    /\ ~sceneAt(i).isRegeneratingImage
    /\ ~sceneAt(i).isGeneratingVideo
    /\ LET flag(s) == [s EXCEPT !.isRegeneratingAudio = TRUE,
                                !.isRegeneratingImage = TRUE, !.videoUrl = FALSE]
       IN  CardCall("scene", i, mapScenes(gen.scenes, sceneAt(i).id,
                                          [k \in 1..Len(gen.scenes) |-> flag(gen.scenes[k])]))

\* A catch that leaves the flags of the call raised.
Settled_CatchKeepsFlags(p, ok, s) ==
    IF ok
    THEN [s EXCEPT !.imageUrl = IF p.kind \in {"image", "scene"} THEN TRUE ELSE @,
                   !.audioUrl = IF p.kind \in {"audio", "scene"} THEN p.url ELSE @,
                   !.videoUrl = IF p.kind = "video" THEN TRUE ELSE @,
                   !.status = IF p.kind = "scene" THEN "completed" ELSE @,
                   !.isRegeneratingAudio = IF p.kind \in {"audio", "scene"}
                                           THEN FALSE ELSE @,
                   !.isRegeneratingImage = IF p.kind \in {"image", "scene"}
                                           THEN FALSE ELSE @,
                   !.isGeneratingVideo = IF p.kind = "video" THEN FALSE ELSE @]
    ELSE s

\* The updater a scene card's call ends with, on success and in its catch.
Settled(p, ok, s) ==
    CASE p.kind = "audio" ->
           [s EXCEPT !.audioUrl = IF ok THEN p.url ELSE @,
                     !.isRegeneratingAudio = FALSE]
      [] p.kind = "image" ->
           [s EXCEPT !.imageUrl = IF ok THEN TRUE ELSE @,
                     !.isRegeneratingImage = FALSE]
      [] p.kind = "video" ->
           [s EXCEPT !.videoUrl = IF ok THEN TRUE ELSE @,
                     !.isGeneratingVideo = FALSE]
      [] p.kind = "scene" ->
           [s EXCEPT !.imageUrl = IF ok THEN TRUE ELSE @,
                     !.audioUrl = IF ok THEN p.url ELSE @,
                     !.status = IF ok THEN "completed" ELSE @,
                     !.isRegeneratingAudio = FALSE,
                     !.isRegeneratingImage = FALSE]

\* The call p of a scene card settles.
CardCallSettles(p, ok) ==
    /\ p \in gen.pending
    /\ LET upd(s) == Settled(p, ok, s)
           gs == mapScenes(gen.scenes, p.id,
                           [k \in 1..Len(gen.scenes) |-> upd(gen.scenes[k])])
       IN  /\ gen' = [gen EXCEPT !.scenes = gs, !.pending = @ \ {p}]
           /\ Shown(appState, gs)

GenNext ==
    \/ CreateMagicStarts
    \/ \E r \in gen.runs, ok \in BOOLEAN : ScriptSettles(r, ok)
    \/ \E r \in gen.runs, ok \in BOOLEAN : ImageSettles(r, ok)
    \/ \E r \in gen.runs, ok \in BOOLEAN : SpeechSettles(r, ok)
    \/ \E r \in gen.runs : DelayEnds(r)
    \/ \E i \in 1..MaxScenes : handleUpdateSceneText(i)
    \/ \E i \in 1..MaxScenes : RegenerateAudioStarts(i)
    \/ \E i \in 1..MaxScenes : handleRegenerateImage(i)
    \/ \E i \in 1..MaxScenes : handleAnimateScene(i)
    \/ \E i \in 1..MaxScenes : handleRegenerateScene(i)
    \/ \E p \in gen.pending, ok \in BOOLEAN : CardCallSettles(p, ok)
    \/ handleReset
    \/ togglePlay
    \/ \E i \in 1..MaxScenes : handleDownloadScene(i)

GenSpec == Init /\ [][GenNext]_vars

\* The story is generated once and edited from its scene cards; every call of a
\* scene card settles.
CardNext ==
    \/ CreateMagicStarts
    \/ \E r \in gen.runs, ok \in BOOLEAN : ScriptSettles(r, ok)
    \/ \E r \in gen.runs, ok \in BOOLEAN : ImageSettles(r, ok)
    \/ \E r \in gen.runs, ok \in BOOLEAN : SpeechSettles(r, ok)
    \/ \E r \in gen.runs : DelayEnds(r)
    \/ \E i \in 1..MaxScenes : handleUpdateSceneText(i)
    \/ \E i \in 1..MaxScenes : RegenerateAudioStarts(i)
    \/ \E i \in 1..MaxScenes : handleRegenerateImage(i)
    \/ \E i \in 1..MaxScenes : handleAnimateScene(i)
    \/ \E i \in 1..MaxScenes : handleRegenerateScene(i)
    \/ \E p \in gen.pending, ok \in BOOLEAN : CardCallSettles(p, ok)

CardSpec ==
    /\ Init
    /\ [][CardNext]_vars
    /\ WF_vars(\E p \in gen.pending, ok \in BOOLEAN : CardCallSettles(p, ok))

\* ------------------------------------------------------ helper functions
\* The helpers of the player and of the export, applied to inputs of their own.
\* JavaScript numbers are exact here: a quotient is a pair [n, d] with d > 0.

\* A table with the landscape size for the portrait tag.
getDimensions_Landscape(aspectRatio) ==
    CASE aspectRatio = "16:9" -> [width |-> 1280, height |-> 720]
      [] aspectRatio = "9:16" -> [width |-> 1280, height |-> 720]
      [] OTHER -> [width |-> 1080, height |-> 1080]

\* switch (aspectRatio) of getDimensions.
getDimensions(aspectRatio) ==
    CASE aspectRatio = "16:9" -> [width |-> 1280, height |-> 720]
      [] aspectRatio = "9:16" -> [width |-> 720, height |-> 1280]
      [] OTHER -> [width |-> 1080, height |-> 1080]

\* A container that is a square for every tag but 16:9.
getContainerStyle_Square(aspectRatio) ==
    CASE aspectRatio = "16:9" -> [maxW |-> 700, aspectW |-> 16, aspectH |-> 9]
      [] OTHER -> [maxW |-> 500, aspectW |-> 1, aspectH |-> 1]

\* switch (aspectRatio) of getContainerStyle: max-w-[..px] and aspect-[w/h].
getContainerStyle(aspectRatio) ==
    CASE aspectRatio = "9:16" -> [maxW |-> 300, aspectW |-> 9, aspectH |-> 16]
      [] aspectRatio = "1:1" -> [maxW |-> 500, aspectW |-> 1, aspectH |-> 1]
      [] OTHER -> [maxW |-> 700, aspectW |-> 16, aspectH |-> 9]

\* useState<'9:16' | '16:9' | '1:1'>
AspectRatios == {"16:9", "9:16", "1:1"}

\* type TransitionEffect
TransitionEffects == {"none", "fade", "slide", "zoom"}

baseClasses == {"absolute", "inset-0", "w-full", "h-full", "object-cover"}

\* A mapping that swaps the two off-screen sides of slide.
getTransitionClass_SlideSwapped(index, activeIndex, effect) ==
    LET isActive == index = activeIndex
        isPrev == index < activeIndex
    IN  baseClasses \cup
        CASE effect = "none" -> IF isActive THEN {"z-10"} ELSE {"z-0", "hidden"}
          [] effect = "fade" ->
               {"transition-opacity", "duration-700", "ease-in-out"} \cup
               (IF isActive THEN {"opacity-100", "z-10"} ELSE {"opacity-0", "z-0"})
          [] effect = "zoom" ->
               {"transition-all", "duration-1000", "ease-in-out"} \cup
               (IF isActive THEN {"opacity-100", "scale-100", "z-10"}
                ELSE {"opacity-0", "scale-110", "z-0"})
          [] effect = "slide" ->
               {"transition-transform", "duration-500", "ease-in-out", "transform"} \cup
               {IF isActive THEN "translate-x-0"
                ELSE IF isPrev THEN "translate-x-full" ELSE "-translate-x-full"} \cup
               {IF isActive THEN "z-10" ELSE "z-0"}
          [] OTHER -> IF isActive THEN {"block"} ELSE {"hidden"}

\* A mapping that keeps a layer on top once the call before put it there.
getTransitionClass_Sticky(index, activeIndex, effect) ==
    LET was == /\ call.fn = "getTransitionClass"
               /\ index \in DOMAIN call.out
               /\ "z-10" \in call.out[index]
    IN  baseClasses \cup
        (IF index = activeIndex \/ was THEN {"z-10"} ELSE {"z-0", "hidden"})

\* getTransitionClass: the class names of layer index, as a set.
getTransitionClass(index, activeIndex, effect) ==
    LET isActive == index = activeIndex
        isPrev == index < activeIndex
    IN  baseClasses \cup
        CASE effect = "none" -> IF isActive THEN {"z-10"} ELSE {"z-0", "hidden"}
          [] effect = "fade" ->
               {"transition-opacity", "duration-700", "ease-in-out"} \cup
               (IF isActive THEN {"opacity-100", "z-10"} ELSE {"opacity-0", "z-0"})
          [] effect = "zoom" ->
               {"transition-all", "duration-1000", "ease-in-out"} \cup
               (IF isActive THEN {"opacity-100", "scale-100", "z-10"}
                ELSE {"opacity-0", "scale-110", "z-0"})
          [] effect = "slide" ->
               {"transition-transform", "duration-500", "ease-in-out", "transform"} \cup
               {IF isActive THEN "translate-x-0"
                ELSE IF isPrev THEN "-translate-x-full" ELSE "translate-x-full"} \cup
               {IF isActive THEN "z-10" ELSE "z-0"}
          [] OTHER -> IF isActive THEN {"block"} ELSE {"hidden"}

\* scenes.map((scene, index) => ... className={getTransitionClass(index)})
layerClasses(n, activeIndex, effect) ==
    [index \in 0..(n - 1) |-> getTransitionClass(index, activeIndex, effect)]

\* Quotients.
Rat(n, d) == [n |-> n, d |-> d]

RLeq(a, b) == a.n * b.d <= b.n * a.d

REq(a, b) == a.n * b.d = b.n * a.d

RMax(a, b) == IF RLeq(a, b) THEN b ELSE a

RMin(a, b) == IF RLeq(a, b) THEN a ELSE b

RMul(k, a) == Rat(k * a.n, a.d)

RAdd(a, b) == Rat(a.n * b.d + b.n * a.d, a.d * b.d)

RSub(a, b) == Rat(a.n * b.d - b.n * a.d, a.d * b.d)

RHalf(a) == Rat(a.n, 2 * a.d)

\* A drawCover that fits the image inside the target (Math.min).
drawCover_Contain(imgW, imgH, width, height) ==
    LET ratio == RMin(Rat(width, imgW), Rat(height, imgH))
        newW == RMul(imgW, ratio)
        newH == RMul(imgH, ratio)
    IN  [offX |-> RHalf(RSub(Rat(width, 1), newW)),
         offY |-> RHalf(RSub(Rat(height, 1), newH)),
         newW |-> newW, newH |-> newH]

\* drawCover: the rectangle handed to ctx.drawImage.
drawCover(imgW, imgH, width, height) ==
    LET ratio == RMax(Rat(width, imgW), Rat(height, imgH))
        newW == RMul(imgW, ratio)
        newH == RMul(imgH, ratio)
    IN  [offX |-> RHalf(RSub(Rat(width, 1), newW)),
         offY |-> RHalf(RSub(Rat(height, 1), newH)),
         newW |-> newW, newH |-> newH]

\* ctx.measureText(' ').width
SpaceWidth == 1

\* ctx.measureText(line).width of a line, given as the places of its words in
\* words: every word is followed by one space.
RECURSIVE measureText(_, _)
measureText(line, words) ==
    IF line = <<>> THEN 0
    ELSE words[Head(line)] + SpaceWidth + measureText(Tail(line), words)

\* A loop body that leaves the word on the line it overflows.
wrapStep_NoBreak(st, n, words, width) ==
    [st EXCEPT !.line = Append(st.line, n)]

\* One turn of the word-wrap loop for words[n] (n counts from 1 here): st.line
\* is the line being filled, st.lines the lines pushed.
wrapStep(st, n, words, width) ==
    LET testLine == Append(st.line, n)
        testWidth == measureText(testLine, words)
    IN  IF testWidth * 10 > width * 9 /\ n > 1
        THEN [line |-> <<n>>, lines |-> Append(st.lines, st.line)]
        ELSE [st EXCEPT !.line = testLine]

RECURSIVE wrapFrom(_, _, _, _)
wrapFrom(st, n, words, width) ==
    IF n > Len(words) THEN Append(st.lines, st.line)
    ELSE wrapFrom(wrapStep(st, n, words, width), n + 1, words, width)

\* The word wrap of drawSubtitles: the lines, each the places of its words.
wordWrap(words, width) == wrapFrom([line |-> <<>>, lines |-> <<>>], 1, words, width)

\* Measured widths of words: the empty word between two spaces, short words, a
\* word wider than any line.
WordWidths == {0, 2, 5, 30}

\* Target widths, so that 0.9 x width is 9 and 18.
TargetWidths == {10, 20}

Texts == UNION {[1..n -> WordWidths] : n \in 1..MaxWords}

\* Everything but call.
otherVars == <<appState, scenes, currentSceneIndex, isPlaying, selectedMusic, progress,
               fallbackStartTimeRef, fallbackRafRef, animateProgress, listeners, audio,
               bgAudio, regens, sceneTime, pausedAt, exp, isExporting, isExportingFull,
               gen, share, lastOp>>

\* generateVideo sets its canvas up, VideoPlayer its container, for one ratio.
surfaces ==
    /\ \E aspectRatio \in AspectRatios :
          call' = [NoCall EXCEPT !.fn = "getDimensions", !.in = aspectRatio,
                                 !.out = [canvas |-> getDimensions(aspectRatio),
                                          container |-> getContainerStyle(aspectRatio)]]
    /\ UNCHANGED otherVars

\* VideoPlayer renders the layers of n scenes; prev keeps the render before.
renderLayers ==
    /\ \E n \in 1..MaxLayers, effect \in TransitionEffects :
          \E activeIndex \in 0..(n - 1) :
             call' = [fn |-> "getTransitionClass",
                      in |-> <<n, activeIndex, effect>>,
                      out |-> layerClasses(n, activeIndex, effect),
                      prev |-> IF call.fn = "getTransitionClass"
                               THEN <<call.in, call.out>> ELSE <<>>]
    /\ UNCHANGED otherVars

\* The export draws an image or a video frame on a target.
drawCoverCall ==
    /\ \E imgW \in 1..MaxDim, imgH \in 1..MaxDim, width \in 1..MaxDim,
          height \in 1..MaxDim :
          call' = [NoCall EXCEPT !.fn = "drawCover",
                                 !.in = <<imgW, imgH, width, height>>,
                                 !.out = drawCover(imgW, imgH, width, height)]
    /\ UNCHANGED otherVars

\* The export draws the caption of a scene.
drawSubtitles ==
    /\ \E words \in Texts, width \in TargetWidths :
          call' = [NoCall EXCEPT !.fn = "drawSubtitles", !.in = <<words, width>>,
                                 !.out = wordWrap(words, width)]
    /\ UNCHANGED otherVars

HelperNext ==
    \/ surfaces
    \/ renderLayers
    \/ drawCoverCall
    \/ drawSubtitles

HelperSpec == Init /\ [][HelperNext]_vars

\* ---------------------------------------------------------- retryOperation
\* One retryOperation call at a time, followed in call: in is <<retries, delay>>
\* of the outer call, retries and delay those of the innermost call, pc the await
\* it is parked at ("operation", "timer") or "done", calls the outcomes of the
\* operation's calls so far, waits the timers set, out the settlement of the
\* returned promise (<<>> while pending).
\*   The operations of the program reject with an Error whose message is a
\* string (part_000 585-850): "rateLimit" is a message with '429',
\* 'RESOURCE_EXHAUSTED' or 'quota', "other" any other message.  The k-th call
\* settles with <<"value", k>> or with <<kind, k>>.
Outcomes == {"value", "rateLimit", "other"}

DefaultRetries == 5

DefaultDelay == 4000

RateLimitFloor == 20000

Retrying == call.fn = "retryOperation" /\ call.pc # "done"

\* const waitTime = isRateLimit ? Math.max(delay, 20000) : delay
waitTime(kind, delay) ==
    IF kind = "rateLimit" THEN RMax(delay, Rat(RateLimitFloor, 1)) ELSE delay

\* isRateLimit ? waitTime * 1.5 : waitTime * 2
nextDelay(kind, wait) ==
    IF kind = "rateLimit" THEN Rat(3 * wait.n, 2 * wait.d) ELSE RMul(2, wait)

\* A catch that retries once more when no retry is left.
onRejected_OneMore(c, error) ==
    IF c.retries < 0
    THEN [c EXCEPT !.pc = "done", !.out = <<"rejected", error>>]
    ELSE [c EXCEPT !.pc = "timer",
                   !.waits = Append(@, waitTime(error[1], c.delay))]

\* The catch of retryOperation, up to the await of the timer.
onRejected(c, error) ==
    IF c.retries <= 0
    THEN [c EXCEPT !.pc = "done", !.out = <<"rejected", error>>]
    ELSE [c EXCEPT !.pc = "timer",
                   !.waits = Append(@, waitTime(error[1], c.delay))]

\* retryOperation(operation, retries, delay) up to the await of operation().
retryOperation ==
    /\ ~Retrying
    /\ \E retries \in 0..MaxRetries :
          call' = [fn |-> "retryOperation",
                   in |-> <<retries, Rat(DefaultDelay, 1)>>,
                   retries |-> retries, delay |-> Rat(DefaultDelay, 1),
                   pc |-> "operation", calls |-> <<>>, waits |-> <<>>,
                   out |-> <<>>]
    /\ UNCHANGED otherVars

\* The promise of operation() settles.
OperationSettles ==
    /\ Retrying
    /\ call.pc = "operation"
    /\ \E kind \in Outcomes :
          LET outcome == <<kind, Len(call.calls) + 1>>
              c == [call EXCEPT !.calls = Append(@, outcome)]
          IN  call' = IF kind = "value"
                      THEN [c EXCEPT !.pc = "done", !.out = <<"resolved", outcome>>]
                      ELSE onRejected(c, outcome)
    /\ UNCHANGED otherVars

\* The timer fires: retryOperation(operation, retries - 1, ...) calls operation.
TimerFires ==
    /\ Retrying
    /\ call.pc = "timer"
    /\ LET last == call.calls[Len(call.calls)]
           wait == call.waits[Len(call.waits)]
       IN  call' = [call EXCEPT !.retries = @ - 1,
                                !.delay = nextDelay(last[1], wait),
                                !.pc = "operation"]
    /\ UNCHANGED otherVars

RetryNext ==
    \/ retryOperation
    \/ OperationSettles
    \/ TimerFires

\* Every call of the operation settles and every timer fires.
RetrySpec ==
    /\ Init
    /\ [][RetryNext]_vars
    /\ WF_vars(OperationSettles)
    /\ WF_vars(TimerFires)

\* -------------------------------------------------------------- the share
\* A story of two narrated scenes, without background music: the user prepares
\* and shares the file of a scene and moves between the scenes.
ShareSceneLists == {sc \in SceneLists : Len(sc) = 2 /\ \A k \in 1..2 : sc[k].audioUrl # 0}

ShareInit == ReadyInit(ShareSceneLists, {FALSE})

ShareNext ==
    \/ handleShareClick
    \/ \E i \in 0..(MaxScenes - 1) : playThisScene(i)
    \/ Frame
    \/ PlayStarted
    \/ AudioTimeUpdate
    \/ AudioEnded
    \/ \E ok \in BOOLEAN : ResumeSettles(ok)
    \/ \E ok \in BOOLEAN : AssetsSettle(ok)
    \/ RecorderData
    \/ RecorderStop
    \/ ActxClosed

ShareSpec == ShareInit /\ [][ShareNext]_vars

\* ----------------------------------------------------------------- claims
Last == Len(scenes) - 1

\* The active scene has no usable narration: the fallback clock times it.
FallbackMode == Mounted /\ ~hasAudio(State)

\* C1: when the active scene completes, a scene that is not the last hands over to
\* the next one with progress 0 and isPlaying unchanged; the last scene stops
\* playback, returns to index 0 with progress 0 and leaves the background music
\* paused at position 0.
C1_SceneEndTransition ==
    [][lastOp' = "handleSceneEnd" =>
         IF currentSceneIndex < Last
         THEN /\ currentSceneIndex' = currentSceneIndex + 1
              /\ progress' = 0
              /\ isPlaying' = isPlaying
         ELSE /\ ~isPlaying'
              /\ currentSceneIndex' = 0
              /\ progress' = 0
              /\ bgAudio.exists => (bgAudio'.paused /\ bgAudio'.currentTime = 0)]_vars

\* The last of two scenes has completed with music selected.
C1_Witness ==
    /\ lastOp = "handleSceneEnd"
    /\ Len(scenes) = 2
    /\ currentSceneIndex = 0
    /\ ~isPlaying
    /\ bgAudio.exists
    /\ sceneTime = 0

\* C2: with a non-empty scene list the index stays within 0..length-1, and it
\* changes only by a scene completion or a navigation action (skip, direct
\* selection, reset).
C2_IndexInRange ==
    /\ [](Len(scenes) > 0 => currentSceneIndex \in 0..Last)
    /\ [][currentSceneIndex' # currentSceneIndex =>
            lastOp' \in {"handleSceneEnd", "navigate"}]_vars

\* A navigation action has moved the index to the last of two scenes.
C2_Witness ==
    /\ lastOp = "navigate"
    /\ Len(scenes) = 2
    /\ currentSceneIndex = 1

\* No narration has been regenerated: a scene keeps the clock mode it started in.
NoModeSwitch == regens = 0

\* C3: progress stays within 0..100; right after a change of the index it is 0; and
\* on the new scene it grows from 0, so the progress of a fallback scene is never
\* ahead of the playing time the scene has had.
C3_ProgressFromZero ==
    /\ [](progress \in 0..100)
    /\ [][currentSceneIndex' # currentSceneIndex => progress' = 0]_vars
    /\ []((FallbackMode /\ NoModeSwitch) =>
            progress * FALLBACK_DURATION <= 100 * sceneTime)

\* C4: a fallback scene paused at progress P and resumed continues from P: the
\* first progress value after resuming is at least P and at most one frame
\* interval ahead of it.
C4_ResumeFromPause ==
    [][(/\ lastOp' = "frame"
        /\ pausedAt # Null
        /\ fallbackRafRef
        /\ fallbackStartTimeRef = Null)
       => /\ progress' >= pausedAt[1]
          /\ (progress' - pausedAt[1]) * FALLBACK_DURATION <= 100 * FrameMs]_vars

\* C5: a scene that has been timed by the fallback clock since it became active
\* completes only after FALLBACK_DURATION of playing time on that scene.
C5_FreshAnchor ==
    [][(lastOp' = "handleSceneEnd" /\ fallbackRafRef /\ NoModeSwitch)
       => sceneTime + FrameMs >= FALLBACK_DURATION]_vars

\* C6: the narration listeners are subscribed exactly when the active scene has a
\* usable narration; a fallback tick is pending exactly when a scene without one is
\* playing; listeners and a pending tick are never both there.
C6_OneClockMode ==
    /\ listeners <=> (Mounted /\ hasAudio(State))
    /\ fallbackRafRef <=> (FallbackMode /\ isPlaying)
    /\ ~(listeners /\ fallbackRafRef)

\* The playing scene switched from the audio clock to the fallback clock when a
\* regeneration of its narration started.
C6_Witness ==
    /\ Mounted
    /\ scenes[currentSceneIndex + 1].audioUrl # 0
    /\ scenes[currentSceneIndex + 1].isRegeneratingAudio
    /\ fallbackRafRef
    /\ ~listeners

\* C7: playback started at index 0 and left alone goes through the scenes in
\* order, one index at a time, stops only at the end of the last scene, and ends
\* stopped at index 0 with progress 0.
C7_PlaysThrough ==
    /\ [][currentSceneIndex' # currentSceneIndex =>
            \/ currentSceneIndex' = currentSceneIndex + 1 /\ isPlaying'
            \/ currentSceneIndex = Last /\ currentSceneIndex' = 0 /\ ~isPlaying']_vars
    /\ [][(isPlaying /\ ~isPlaying') =>
            (currentSceneIndex = Last /\ lastOp' = "handleSceneEnd")]_vars
    /\ <>[](~isPlaying /\ currentSceneIndex = 0 /\ progress = 0)

\* Two scenes were played and playback stopped at the end of the second.
C7_Witness ==
    /\ lastOp = "handleSceneEnd"
    /\ Len(scenes) = 2
    /\ ~isPlaying
    /\ currentSceneIndex = 0
    /\ progress = 0

\* C8: a fallback tick is pending only while the player is mounted and playing, so
\* after a pause, a skip or a reset none is left; a frame that passes while
\* playback is stopped changes neither progress nor the index, and no fallback
\* scene completes.
C8_TickCancelled ==
    /\ [](fallbackRafRef => (Mounted /\ isPlaying))
    /\ [][(~isPlaying /\ lastOp' = "frame") =>
            (progress' = progress /\ currentSceneIndex' = currentSceneIndex)]_vars
    /\ [][(~isPlaying /\ ~listeners) => lastOp' # "handleSceneEnd"]_vars

\* A fallback scene was paused after it had made progress and a frame has passed.
C8_Witness ==
    /\ lastOp = "frame"
    /\ ~isPlaying
    /\ pausedAt # Null
    /\ pausedAt # <<0>>

C10_RefusalStopsPlayback ==
    /\ [][(lastOp' = "refused" /\ isPlaying) =>
            /\ ~isPlaying'
            /\ currentSceneIndex' = currentSceneIndex
            /\ scenes' = scenes
            /\ Mounted']_vars
    /\ [][(~isPlaying /\ isPlaying' /\ hasAudio(State)') =>
            (~audio'.paused /\ listeners')]_vars

\* Playback of the second scene was refused.
C10_Witness ==
    /\ lastOp = "refused"
    /\ ~isPlaying
    /\ currentSceneIndex = 1
    /\ audio.paused

\* The scene the export is at.
ExportScene == exp.list[exp.i]

\* A step that starts a generateVideo call or refuses to.
ExportStarts == ~Busy /\ exp' # exp

\* The render loop of the export's scene has just ended.
RenderEnds == exp.pc = "draw" /\ exp'.pc # "draw"

\* C11: within one export call the scenes are taken in list order; the assets of
\* a scene are loaded only when no narration source is started, so after the
\* render loop of the scene before has ended (elapsed >= duration) and its source
\* was stopped; never more than one source is started and not stopped.
C11_ScenesInOrder ==
    /\ [](exp.sources <= 1)
    /\ [](exp.pc = "load" => exp.sources = 0)
    /\ [](\A j \in 1..Len(exp.rendered) :
            /\ exp.rendered[j] <= exp.i
            /\ j > 1 => exp.rendered[j - 1] < exp.rendered[j])
    /\ [][RenderEnds => (exp'.elapsed >= exp.duration /\ exp'.sources = 0)]_vars
    /\ [][(Busy /\ exp'.pc = "load") => exp'.i >= exp.i]_vars

\* The second of two narrated scenes is being drawn.
C11_Witness ==
    /\ exp.pc = "draw"
    /\ exp.rendered = <<1, 2>>
    /\ exp.sources = 1

\* C12: the visible duration of a drawn scene is the narration's duration plus
\* Padding when the scene has narration, and DefaultDuration when it has none.
C12_VisibleDuration ==
    exp.pc \in {"play", "draw"} =>
        exp.duration = IF ExportScene.audioUrl # 0 THEN AudioDuration + Padding
                       ELSE DefaultDuration

\* Every scene of the export is ready and none of its loads has failed.
AllReady ==
    /\ exp.failed = {}
    /\ \A j \in 1..Len(exp.list) : ReadyScene(exp.list[j])

\* C13: in an export of ready scenes, measured from the start of the recorder,
\* the narration source of a scene is stopped no later than the sum of the
\* visible durations so far, and the recording ends no later than the sum of all
\* of them, up to one frame for every scene drawn, however long the assets take
\* to load.
C13_StopBySumOfDurations ==
    /\ [][(AllReady /\ RenderEnds) =>
            exp'.recTime <= exp'.planned + FrameMs * Len(exp'.rendered)]_vars
    /\ []((AllReady /\ exp.pc = "resolved") =>
            exp.recTime <= exp.planned + FrameMs * Len(exp.rendered))

\* C14: a movie export with no ready scene is refused with an error before
\* generateVideo is called: no audio graph, no recorder, no blob; and no audio
\* graph is ever created for an empty scene list.
C14_EmptyExportRefused ==
    /\ [][(/\ ExportStarts
           /\ exp'.caller \in {"full", "social"}
           /\ Len(readyScenes(scenes)) = 0)
          => /\ exp'.pc = "rejected"
             /\ exp'.error = "empty"
             /\ exp'.actx = "none"
             /\ exp'.recorder = "none"
             /\ exp'.blob = Null
             /\ ~isExportingFull']_vars
    /\ [](exp.actx # "none" => Len(exp.list) > 0)

\* A full-movie export was refused for want of a ready scene.
C14_Witness ==
    /\ exp.pc = "rejected"
    /\ exp.error = "empty"
    /\ exp.caller = "full"
    /\ Len(scenes) = 2

\* The scenes the export has drawn.
Rendered == {exp.rendered[k] : k \in 1..Len(exp.rendered)}

\* C15: a scene whose assets fail to load is never drawn, and the call that
\* skipped it still draws every other scene that has a visual and resolves with
\* a blob.
C15_FailedSceneSkipped ==
    /\ Rendered \cap exp.failed = {}
    /\ (Finished(exp) /\ exp.failed # {}) =>
          /\ exp.pc = "resolved"
          /\ exp.blob # Null
          /\ \A j \in 1..Len(exp.list) :
                (j \notin exp.failed /\ exp.list[j].visual # "none") => j \in Rendered

\* C16: a call is rejected only by a failure of the session set-up (or refused
\* for want of a ready scene), never by an error of one of its scenes.
C16_OnlySessionFailuresReject ==
    exp.pc = "rejected" => exp.error \in {"session", "empty"}

C18_SettledCallCleansUp ==
    (Finished(exp) /\ exp.recorder # "none") =>
        /\ exp.recorder = "inactive"
        /\ exp.actx = "closed"

\* C19: once the recorder of a call is recording, with frames delivered and
\* every awaited promise settling, the call eventually resolves.
C19_ExportResolves == (exp.recorder = "recording") ~> (exp.pc = "resolved")

\* The preview shows a scene with its narration sounding.
PreviewLive == Mounted /\ isPlaying /\ ~audio.paused

\* An export draws a scene with its narration source started.
ExportLive == exp.pc = "draw" /\ exp.sources > 0

\* C20: the preview and an export are never live at the same time.
C20_OneLiveScene == ~(PreviewLive /\ ExportLive)

\* C21: every scene list handed to generateVideo holds only ready scenes, that
\* is scenes with a visual and a narration url.
C21_OnlyReadyScenesExported ==
    \A j \in 1..Len(exp.list) : ReadyScene(exp.list[j])

\* C22: the output type generateVideo selects is the first of video/webm with
\* vp9 and opus, video/webm, video/mp4 that the runtime supports, and video/webm
\* when it supports none; the blob of a resolved call has exactly that type.
C22_FirstSupportedType ==
    /\ call.fn = "isTypeSupported" =>
          /\ exp.mimeType = call.out
          /\ call.out = IF "video/webm;codecs=vp9,opus" \in call.in
                        THEN "video/webm;codecs=vp9,opus"
                        ELSE IF "video/webm" \in call.in THEN "video/webm"
                        ELSE IF "video/mp4" \in call.in THEN "video/mp4"
                        ELSE "video/webm"
    /\ exp.blob # Null => (exp.mimeType # "" /\ exp.blobType = exp.mimeType)
    /\ exp.blob = Null => exp.blobType = ""

\* A call resolved with an mp4 blob on a runtime that has no webm.
C22_Witness ==
    /\ exp.pc = "resolved"
    /\ exp.blobType = "video/mp4"
    /\ Len(exp.rendered) > 0

\* C23: a call whose session cannot be set up (no capture stream, no supported
\* output type, no recorder) is rejected with no blob, no chunk and no scene
\* drawn, and its recorder never started.
C23_SessionFailureRejects ==
    /\ (call.fn = "isTypeSupported" /\ call.in = {}) =>
          (exp.pc = "rejected" /\ exp.error = "session")
    /\ (exp.mimeType # "" /\ ~exp.typeSupported) => exp.error = "session"
    /\ exp.error = "session" =>
          /\ exp.pc = "rejected"
          /\ exp.blob = Null
          /\ exp.chunks = <<>>
          /\ exp.rendered = <<>>
          /\ exp.starts = 0
          /\ exp.recorder = "none"

\* A call was rejected because the runtime supports none of the types.
C23_Witness ==
    /\ call.fn = "isTypeSupported"
    /\ call.in = {}
    /\ exp.pc = "rejected"
    /\ Len(exp.list) > 0

\* C25: the export canvas is 1280x720 for 16:9, 720x1280 for 9:16 and 1080x1080
\* for 1:1.
C25_DimensionTable ==
    call.fn = "getDimensions" =>
        /\ call.in = "16:9" => call.out.canvas = [width |-> 1280, height |-> 720]
        /\ call.in = "9:16" => call.out.canvas = [width |-> 720, height |-> 1280]
        /\ call.in = "1:1" => call.out.canvas = [width |-> 1080, height |-> 1080]

\* The canvas of a portrait export.
C25_Witness ==
    /\ call.fn = "getDimensions"
    /\ call.in = "9:16"
    /\ call.out.canvas.height = 1280

\* C26 as stated: the preview surface has the dimensions of the export surface,
\* 720x1280 for 9:16.
C26_SameDimensions ==
    call.fn = "getDimensions" =>
        /\ call.out.container.maxW = call.out.canvas.width
        /\ call.in = "9:16" => call.out.container.maxW = 720

\* C26 amended: for 9:16 the export surface is 720x1280 and the preview container
\* has the aspect ratio 9/16; for every tag the preview container has the aspect
\* ratio of the export canvas.
C26_SameShape ==
    call.fn = "getDimensions" =>
        /\ call.in = "9:16" =>
              /\ call.out.canvas = [width |-> 720, height |-> 1280]
              /\ call.out.container.aspectW = 9 /\ call.out.container.aspectH = 16
        /\ call.out.container.aspectW * call.out.canvas.height
              = call.out.container.aspectH * call.out.canvas.width

\* The two surfaces of a portrait story: a container 300 px wide at most.
C26_Witness ==
    /\ call.fn = "getDimensions"
    /\ call.in = "9:16"
    /\ call.out.container.maxW = 300

Translates == {"translate-x-0", "-translate-x-full", "translate-x-full"}

\* C28: with fade and zoom a layer has opacity 100 and z-10 exactly when it is
\* the active one and opacity 0 otherwise, with zoom also scale 100 when active
\* and 110 when not; with slide the active layer is at translate-x-0, layers
\* before it at -translate-x-full and layers after it at translate-x-full.
C28_EffectClasses ==
    call.fn = "getTransitionClass" =>
        \A i \in DOMAIN call.out :
           LET c == call.out[i]
               isActive == i = call.in[2]
               effect == call.in[3]
           IN  /\ effect \in {"fade", "zoom"} =>
                     /\ c \cap {"opacity-100", "opacity-0"} =
                           IF isActive THEN {"opacity-100"} ELSE {"opacity-0"}
                     /\ "z-10" \in c <=> isActive
               /\ effect = "zoom" =>
                     c \cap {"scale-100", "scale-110"} =
                        IF isActive THEN {"scale-100"} ELSE {"scale-110"}
               /\ effect = "slide" =>
                     c \cap Translates =
                        IF isActive THEN {"translate-x-0"}
                        ELSE IF i < call.in[2] THEN {"-translate-x-full"}
                        ELSE {"translate-x-full"}

\* Three sliding layers, the middle one active.
C28_Witness ==
    /\ call.fn = "getTransitionClass"
    /\ call.in = <<3, 1, "slide">>
    /\ "-translate-x-full" \in call.out[0]
    /\ "translate-x-full" \in call.out[2]

\* C29: the rectangle drawCover draws contains the target, overflows it equally on
\* opposite sides and has the aspect ratio of the source.
C29_CoverFit ==
    call.fn = "drawCover" =>
        LET imgW == call.in[1]
            imgH == call.in[2]
            width == Rat(call.in[3], 1)
            height == Rat(call.in[4], 1)
            zero == Rat(0, 1)
            o == call.out
        IN  /\ RLeq(o.offX, zero) /\ RLeq(o.offY, zero)
            /\ RLeq(width, RAdd(o.offX, o.newW))
            /\ RLeq(height, RAdd(o.offY, o.newH))
            /\ REq(RSub(zero, o.offX), RSub(RAdd(o.offX, o.newW), width))
            /\ REq(RSub(zero, o.offY), RSub(RAdd(o.offY, o.newH), height))
            /\ REq(RMul(imgH, o.newW), RMul(imgW, o.newH))

\* A wide image on a tall target: it overflows on the left and on the right.
C29_Witness ==
    /\ call.fn = "drawCover"
    /\ call.in = <<4, 1, 2, 3>>
    /\ ~RLeq(Rat(0, 1), call.out.offX)
    /\ REq(call.out.offY, Rat(0, 1))

RECURSIVE Flatten(_)
Flatten(lines) == IF lines = <<>> THEN <<>> ELSE Head(lines) \o Flatten(Tail(lines))

\* C30: a wrapped line of more than one word is at most 0.9 x the target width
\* wide; a word wider than that is alone on its line; the lines hold every word
\* once, in the order of the text.
C30_WordWrap ==
    call.fn = "drawSubtitles" =>
        LET words == call.in[1]
            width == call.in[2]
            lines == call.out
        IN  /\ \A k \in 1..Len(lines) :
                  Len(lines[k]) # 1 => measureText(lines[k], words) * 10 <= width * 9
            /\ \A n \in 1..Len(words) :
                  words[n] * 10 > width * 9 => \E k \in 1..Len(lines) : lines[k] = <<n>>
            /\ Flatten(lines) = [n \in 1..Len(words) |-> n]

\* A caption of three words, the middle one wider than the line: three lines.
C30_Witness ==
    /\ call.fn = "drawSubtitles"
    /\ Len(call.in[1]) = 3
    /\ call.in[1][2] = 30
    /\ call.out = <<<<1>>, <<2>>, <<3>>>>

\* The scenes whose status is 'completed'.
CompletedScenes == {k \in 1..Len(gen.scenes) : gen.scenes[k].status = "completed"}

\* A step of the preview or of an export.
PreviewOrExport ==
    \/ togglePlay
    \/ \E i \in 1..MaxScenes : handleDownloadScene(i)

Statuses == [k \in 1..Len(gen.scenes) |-> gen.scenes[k].status]

\* C24: after any sequence of generation, regeneration (audio, image, scene),
\* animation and text edits, a scene whose status is 'completed' has an image or a
\* video, and no step of the preview or of an export changes a status.
C24_CompletedHasVisual ==
    /\ [](\A k \in CompletedScenes :
             gen.scenes[k].imageUrl \/ gen.scenes[k].videoUrl)
    /\ [][Statuses' # Statuses => ~PreviewOrExport]_vars

\* A completed scene that was regenerated as a whole and then animated, while an
\* export of it is in flight.
C24_Witness ==
    /\ appState = "READY"
    /\ \E k \in CompletedScenes :
          /\ gen.scenes[k].videoUrl
          /\ gen.scenes[k].audioUrl > MaxScenes
    /\ exp.pc # "idle"

Failures(c) == {k \in 1..Len(c.calls) : c.calls[k][1] # "value"}

\* C31: retryOperation settles; it calls the operation at most retries + 1 times,
\* resolves with the result of the first call that succeeds and makes no call
\* after it, and rejects, with the error of the last call, only when retries + 1
\* calls have failed.
C31_RetryTerminates ==
    /\ [](Retrying \/ (call.fn = "retryOperation" /\ call.pc = "done") =>
            /\ Len(call.calls) <= call.in[1] + 1
            /\ 1..(Len(call.calls) - 1) \subseteq Failures(call)
            /\ call.out # <<>> =>
                  /\ call.pc = "done"
                  /\ call.out[2] = call.calls[Len(call.calls)]
                  /\ call.out[1] = "resolved" <=> call.out[2][1] = "value"
                  /\ call.out[1] = "rejected" =>
                        Len(call.calls) = call.in[1] + 1
            /\ call.pc = "done" => call.out # <<>>)
    /\ (Retrying ~> (call.fn = "retryOperation" /\ call.pc = "done"))

\* The default call rejected after six failed calls of the operation.
C31_Witness ==
    /\ call.fn = "retryOperation"
    /\ call.in[1] = DefaultRetries
    /\ call.out # <<>>
    /\ call.out[1] = "rejected"
    /\ Len(call.calls) = 6

\* A player download is in flight.
Downloading == exp.caller = "download" /\ ~Finished(exp) /\ exp.pc # "idle"

\* C32: isPlaying is false for as long as a player download is in flight, and
\* when the download finishes, resolved or rejected, isPlaying is what it was
\* when the download was requested.
C32_DownloadKeepsPlayState ==
    /\ [](Downloading => ~isPlaying)
    /\ [][Downloading /\ Finished(exp') => isPlaying' = exp.wasPlaying]_vars

\* The preview is in audio-driven mode, paused, on a narration that has not ended.
PausedOnNarration ==
    /\ Mounted
    /\ hasAudio(State)
    /\ ~isPlaying
    /\ audio.src = AudioUrl(State)
    /\ audio.currentTime < AudioDuration

\* A step that pauses or resumes the narration of the active scene.
PauseOrResume ==
    /\ Mounted
    /\ hasAudio(State)
    /\ audio.src = AudioUrl(State)
    /\ audio.currentTime < AudioDuration
    /\ isPlaying' # isPlaying
    /\ currentSceneIndex' = currentSceneIndex
    /\ scenes' = scenes
    /\ appState' = appState

\* C33: in audio-driven mode, while the preview is paused progress is the played
\* fraction of the narration, and pausing or resuming on the same scene neither
\* moves the narration nor reloads its source.
C33_PauseKeepsProgress ==
    /\ [](PausedOnNarration =>
             progress = (audio.currentTime * 100) \div AudioDuration)
    /\ [][PauseOrResume =>
             audio'.currentTime = audio.currentTime /\ audio'.src = audio.src]_vars

\* C34: whenever the share state is 'ready' the file is the export of the active
\* scene, and the file the share button offers is the export of the active scene.
C34_ShareFileOfActiveScene ==
    /\ share.state = "ready" => share.file = <<currentSceneIndex>>
    /\ call.fn = "navigator.share" => call.in[1] = <<call.in[2]>>

\* The story was reset while a generation run was still running, and no new run
\* has been started since.
ResetWhileGenerating == appState = "IDLE" /\ gen.runs # {}

\* C35: after a reset a generation run that is still running changes neither
\* appState nor the scenes, so in READY the scenes are those of the run that set
\* READY and no run is still running.
C35_ResetCancelsGeneration ==
    /\ [](appState = "READY" => gen.scenes # <<>> /\ gen.runs = {})
    /\ [][ResetWhileGenerating /\ gen'.epoch = gen.epoch =>
             appState' = "IDLE" /\ gen'.scenes = <<>>]_vars

\* The scenes are those run r made and no reset has emptied them.
ScenesOf(r) ==
    /\ Len(gen.scenes) = r.n
    /\ \A k \in 1..r.n : gen.scenes[k].id = <<r.ep, k>>

\* The status the loop of run r has given the scene at k when it stands at r.i.
InOrder(r, k) ==
    LET status == gen.scenes[k].status
    IN  IF k < r.i \/ (k = r.i /\ r.pc = "delay") THEN status \in {"completed", "error"}
        ELSE IF k = r.i THEN status = "loading"
        ELSE status = "pending"

\* A step that neither replaces nor empties the scenes.
SameScenes ==
    /\ Len(gen'.scenes) = Len(gen.scenes)
    /\ \A k \in 1..Len(gen.scenes) : gen'.scenes[k].id = gen.scenes[k].id

\* The scenes whose status a step changes.
StatusChanged ==
    {k \in 1..Len(gen.scenes) : gen'.scenes[k].status # gen.scenes[k].status}

\* No generation has been started after a reset.
NoRestart == gen.epoch <= 1

\* C36: in a story that was not generated again after a reset, the asset loop
\* takes the scenes in order, one at a time: the scenes before the one it stands
\* at are completed or in error, that one is loading and the later ones are
\* pending; a step of the loop changes the status of one scene, from pending to
\* loading or from loading to completed or error; and once the run has reached
\* READY no scene is pending or loading.
C36_ScenesInOrder ==
    /\ [](NoRestart =>
             \A r \in gen.runs :
                r.pc # "script" /\ ScenesOf(r) => \A k \in 1..r.n : InOrder(r, k))
    /\ [](NoRestart /\ appState = "READY" /\ gen.runs = {} =>
             \A k \in 1..Len(gen.scenes) :
                gen.scenes[k].status \in {"completed", "error"})
    /\ [][NoRestart /\ appState = "GENERATING_ASSETS" /\ SameScenes =>
             /\ Cardinality(StatusChanged) <= 1
             /\ \A k \in StatusChanged :
                   <<gen.scenes[k].status, gen'.scenes[k].status>> \in
                      {<<"pending", "loading">>, <<"loading", "completed">>,
                       <<"loading", "error">>}]_vars

\* READY after a run whose first scene failed and whose second scene was
\* generated.
C36_Witness ==
    /\ appState = "READY"
    /\ gen.runs = {}
    /\ Len(gen.scenes) = 2
    /\ gen.scenes[1].status = "error"
    /\ gen.scenes[2].status = "completed"
    /\ gen.scenes[2].imageUrl

\* The calls in flight that raised flag f of the scene at k.
Owners(k, f) ==
    {p \in gen.pending :
        /\ p.id = gen.scenes[k].id
        /\ p.kind \in (CASE f = "isRegeneratingAudio" -> {"audio", "scene"}
                         [] f = "isRegeneratingImage" -> {"image", "scene"}
                         [] f = "isGeneratingVideo" -> {"video"})}

Flags == {"isRegeneratingAudio", "isRegeneratingImage", "isGeneratingVideo"}

\* The in-flight flags of a scene.
FlagsOf(s) == [f \in Flags |-> s[f]]

\* The scenes whose in-flight flags a step changes.
FlagsChanged ==
    {k \in 1..Len(gen.scenes) : FlagsOf(gen'.scenes[k]) # FlagsOf(gen.scenes[k])}

\* Flag f of the scene at k is raised.
Raised(k, f) == k <= Len(gen.scenes) /\ gen.scenes[k][f]

\* C37: a raised in-flight flag belongs to exactly one call in flight for that
\* scene and is lowered when that call settles, on success and on failure; a step
\* changes the flags of at most one scene, the one its call was made for.
C37_FlagsLowered ==
    /\ [](\A k \in 1..Len(gen.scenes), f \in Flags :
             gen.scenes[k][f] <=> Cardinality(Owners(k, f)) = 1)
    /\ [][SameScenes =>
             /\ Cardinality(FlagsChanged) <= 1
             /\ \A k \in FlagsChanged :
                   \E p \in gen.pending \cup gen'.pending : p.id = gen.scenes[k].id]_vars
    /\ \A k \in 1..MaxScenes, f \in Flags : Raised(k, f) ~> ~Raised(k, f)

\* The regeneration of a scene failed and its two flags are lowered again, while
\* the animation of the other scene is still in flight.
C37_Witness ==
    /\ appState = "READY"
    /\ Len(gen.scenes) = 2
    /\ gen.ops = 2
    /\ gen.pending # {}
    /\ \A p \in gen.pending : p.kind = "video" /\ p.id = gen.scenes[2].id
    /\ ~gen.scenes[1].isRegeneratingAudio
    /\ ~gen.scenes[1].isRegeneratingImage
    /\ gen.scenes[1].status = "error"
    /\ gen.scenes[2].isGeneratingVideo
====
